---------------------------- MODULE Spec2Model ----------------------------
(***************************************************************************)
(* Model of the Swiss Ephemeris MCP server (src/unnamed/part_001, the      *)
(* same code as src/index.js): the position-line parsers, the chart        *)
(* assembly calculateEphemeris and the aspect engine                       *)
(* calculateSynastryAspects.                                               *)
(*                                                                         *)
(* Numbers.  The program computes with IEEE doubles.  The model computes   *)
(* with exact fixed-point integers: a longitude is an integer number of    *)
(* units, UnitsPerDegree units to the degree, so that a second of arc and  *)
(* a tenth of it, a hundredth of a degree and half a hundredth are all     *)
(* whole numbers of units.  A value the program rounds to two decimals     *)
(* (Math.round(x * 100) / 100, Number.prototype.toFixed(2)) is an integer  *)
(* number of hundredths of a degree.  Rounding errors of the doubles       *)
(* themselves are not modelled.                                            *)
(***************************************************************************)
EXTENDS Integers, Sequences, FiniteSets, Bags, TLC

\* The tool calls handled so far, oldest first, each with the chart
\* assemblies it ran and what it returned or threw.
VARIABLE history

\* One degree, in units of a tenth of a second of arc.
UnitsPerDegree == 3600 * 10

\* One hundredth of a degree, in units.
UnitsPerHundredth == UnitsPerDegree \div 100

Deg(d) == d * UnitsPerDegree

Abs(x) == IF x < 0 THEN -x ELSE x

\* JavaScript's % on numbers: the result takes the sign of the dividend.
JsRem(a, n) == IF a >= 0 THEN a % n ELSE -((-a) % n)

\* Variant of Round2: a half rounds down.
Round2HalfDown(x) == (x * 100 + (UnitsPerDegree \div 2) - 1) \div UnitsPerDegree

\* Math.round(x * 100) / 100 of a value of x units, in hundredths: the
\* nearest hundredth, a half rounding up.
Round2(x) == (x * 100 + (UnitsPerDegree \div 2)) \div UnitsPerDegree

\* Number.prototype.toFixed(2) of a value of x >= 0 units, in hundredths:
\* the nearest hundredth, of two equally near the larger.
ToFixed2(x) == (x * 100 + (UnitsPerDegree \div 2)) \div UnitsPerDegree

(***************************************************************************)
(* The sign table.                                                         *)
(***************************************************************************)

\* signMap of the three parsers: abbreviation -> name and offset (degrees).
signMap ==
  [ ar |-> [name |-> "Aries",       offset |-> 0],
    ta |-> [name |-> "Taurus",      offset |-> 30],
    ge |-> [name |-> "Gemini",      offset |-> 60],
    cn |-> [name |-> "Cancer",      offset |-> 90],
    le |-> [name |-> "Leo",         offset |-> 120],
    vi |-> [name |-> "Virgo",       offset |-> 150],
    li |-> [name |-> "Libra",       offset |-> 180],
    sc |-> [name |-> "Scorpio",     offset |-> 210],
    sa |-> [name |-> "Sagittarius", offset |-> 240],
    cp |-> [name |-> "Capricorn",   offset |-> 270],
    aq |-> [name |-> "Aquarius",    offset |-> 300],
    pi |-> [name |-> "Pisces",      offset |-> 330] ]

\* The signs array of the derived points, indexed from 0 in the program and
\* from 1 here.
signs ==
  << "Aries", "Taurus", "Gemini", "Cancer", "Leo", "Virgo",
     "Libra", "Scorpio", "Sagittarius", "Capricorn", "Aquarius", "Pisces" >>

\* A chart point as the program stores it: longitude in units, sign name,
\* degree in hundredths.
ChartPoint(lon, sign, degree) ==
  [longitude |-> lon, sign |-> sign, degree |-> degree]

(***************************************************************************)
(* Text.  A label is a string; Chars gives its characters, so that         *)
(* String.prototype.includes and the house regular expression are computed *)
(* on the text.                                                            *)
(***************************************************************************)

\* The labels the model's calculator output uses, and the needles the
\* program searches for, with their characters.
Chars(s) ==
  CASE s = "Sun" -> << "S", "u", "n" >>
    [] s = "Moon" -> << "M", "o", "o", "n" >>
    [] s = "true Node" -> << "t", "r", "u", "e", " ", "N", "o", "d", "e" >>
    [] s = "mean Node" -> << "m", "e", "a", "n", " ", "N", "o", "d", "e" >>
    [] s = "Pholus" -> << "P", "h", "o", "l", "u", "s" >>
    [] s = "house  1" -> << "h", "o", "u", "s", "e", " ", " ", "1" >>
    [] s = "house 13" -> << "h", "o", "u", "s", "e", " ", "1", "3" >>
    [] s = "house " -> << "h", "o", "u", "s", "e", " " >>
    [] s = "Ascendant" -> << "A", "s", "c", "e", "n", "d", "a", "n", "t" >>
    [] s = "MC" -> << "M", "C" >>
    [] s = "ARMC" -> << "A", "R", "M", "C" >>
    [] s = "Vertex" -> << "V", "e", "r", "t", "e", "x" >>
    [] s = "Anti-Vertex" ->
         << "A", "n", "t", "i", "-", "V", "e", "r", "t", "e", "x" >>
    [] s = "equat. Asc." ->
         << "e", "q", "u", "a", "t", ".", " ", "A", "s", "c", "." >>
    [] s = "" -> << >>

\* text.includes(needle)
Includes(text, needle) ==
  LET s == Chars(text)
      t == Chars(needle)
  IN  \E i \in 1..(Len(s) - Len(t) + 1) : SubSeq(s, i, i + Len(t) - 1) = t

Digits == { "0", "1", "2", "3", "4", "5", "6", "7", "8", "9" }

DigitValue(c) ==
  CASE c = "0" -> 0 [] c = "1" -> 1 [] c = "2" -> 2 [] c = "3" -> 3
    [] c = "4" -> 4 [] c = "5" -> 5 [] c = "6" -> 6 [] c = "7" -> 7
    [] c = "8" -> 8 [] c = "9" -> 9

\* parseInt of the digits of s from place i on, value so far acc.
RECURSIVE ParseDigits(_, _, _)
ParseDigits(s, i, acc) ==
  IF i > Len(s) \/ s[i] \notin Digits THEN acc
  ELSE ParseDigits(s, i + 1, acc * 10 + DigitValue(s[i]))

\* The first place of s from i on that holds no space.
RECURSIVE SkipSpaces(_, _)
SkipSpaces(s, i) ==
  IF i > Len(s) \/ s[i] # " " THEN i ELSE SkipSpaces(s, i + 1)

\* A value the program holds as null or undefined.
Null == [null |-> TRUE]

\* parts[0].trim().match(/^house\s+(\d+)/): the match with
\* parseInt(houseMatch[1]) as its house, Null when the label does not match.
HouseMatch(label) ==
  LET s == Chars(label)
      d == SkipSpaces(s, 6)
  IN  IF /\ Len(s) >= 7
         /\ SubSeq(s, 1, 5) = << "h", "o", "u", "s", "e" >>
         /\ s[6] = " "
         /\ d <= Len(s)
         /\ s[d] \in Digits
      THEN [house |-> ParseDigits(s, d, 0)]
      ELSE Null

\* String.prototype.toLowerCase on the two letters of a sign.
ToLowerCase(s) ==
  CASE s = "AR" -> "ar" [] s = "TA" -> "ta" [] s = "GE" -> "ge"
    [] s = "CN" -> "cn" [] s = "LE" -> "le" [] s = "VI" -> "vi"
    [] s = "LI" -> "li" [] s = "SC" -> "sc" [] s = "SA" -> "sa"
    [] s = "CP" -> "cp" [] s = "AQ" -> "aq" [] s = "PI" -> "pi"
    [] s = "Le" -> "le"
    [] OTHER -> s

(***************************************************************************)
(* A line of calculator output is [label, mark, position]:                 *)
(*   label     the first comma-separated field, trimmed;                   *)
(*   mark      "error:" or "warning:" when the line holds that substring,  *)
(*             "" otherwise;                                               *)
(*   position  the second field: kind "nocomma" when the line has no       *)
(*             comma, "nomatch" when the field fails the position regular  *)
(*             expression, and "match" with the four captured groups       *)
(*             (degrees and minutes as the integers their digits spell,    *)
(*             sign as written, seconds in tenths of a second of arc).     *)
(* A line has at most two fields, as the calculator prints it under        *)
(* -fPZ -g, (a label and a position).                                      *)
(***************************************************************************)

Position(degrees, sign, minutes, seconds) ==
  [kind |-> "match", degrees |-> degrees, sign |-> sign,
   minutes |-> minutes, seconds |-> seconds]

NoMatch == [kind |-> "nomatch", degrees |-> 0, sign |-> "", minutes |-> 0, seconds |-> 0]

NoComma == [kind |-> "nocomma", degrees |-> 0, sign |-> "", minutes |-> 0, seconds |-> 0]

Line(label, mark, position) ==
  [label |-> label, mark |-> mark, position |-> position]

\* minutes / 60, in units.
MinutesToUnits(minutes) == minutes * (UnitsPerDegree \div 60)

\* seconds / 3600, in units, of seconds given in tenths.
SecondsToUnits(seconds) == seconds * (UnitsPerDegree \div 36000)

\* parts.length < 2
TooFewParts(line) == line.position.kind = "nocomma"

\* positionStr.match(/^(\d+)\s+([a-z]{2})\s+(\d+)'\s*([\d.]+)$/i)
PosMatch(line) == line.position.kind = "match"

\* Variant of PositionLongitude: the seconds are left out of the sum.
PositionLongitudeNoSeconds(signInfo, degrees, minutes, seconds) ==
  Deg(signInfo.offset) + Deg(degrees) + MinutesToUnits(minutes)

\* signInfo.offset + degrees + (minutes / 60) + (seconds / 3600)
PositionLongitude(signInfo, degrees, minutes, seconds) ==
  Deg(signInfo.offset) + Deg(degrees) + MinutesToUnits(minutes)
    + SecondsToUnits(seconds)

\* Math.round((degrees + (minutes / 60) + (seconds / 3600)) * 100) / 100
PositionDegree(degrees, minutes, seconds) ==
  Round2(Deg(degrees) + MinutesToUnits(minutes) + SecondsToUnits(seconds))

parsePlanetLine(line) ==
  IF TooFewParts(line) THEN Null
  ELSE IF ~PosMatch(line) THEN Null
  ELSE LET name == line.label
           degrees == line.position.degrees
           signAbbr == ToLowerCase(line.position.sign)
           minutes == line.position.minutes
           seconds == line.position.seconds
       IN  IF signAbbr \notin DOMAIN signMap THEN Null
           ELSE LET signInfo == signMap[signAbbr]
                IN  [ name |-> name,
                      longitude |-> PositionLongitude(signInfo, degrees, minutes, seconds),
                      sign |-> signInfo.name,
                      degree |-> PositionDegree(degrees, minutes, seconds) ]

\* Variant of parseHouseLine: the sign field is looked up as it is written.
parseHouseLineOwnGrammar(line) ==
  IF TooFewParts(line) THEN Null
  ELSE IF HouseMatch(line.label) = Null THEN Null
  ELSE IF ~PosMatch(line) THEN Null
  ELSE IF line.position.sign \notin DOMAIN signMap THEN Null
  ELSE [ house |-> HouseMatch(line.label).house,
         longitude |-> PositionLongitude(signMap[line.position.sign],
                                         line.position.degrees,
                                         line.position.minutes,
                                         line.position.seconds),
         sign |-> signMap[line.position.sign].name,
         degree |-> PositionDegree(line.position.degrees, line.position.minutes,
                                   line.position.seconds) ]

parseHouseLine(line) ==
  IF TooFewParts(line) THEN Null
  ELSE IF HouseMatch(line.label) = Null THEN Null
  ELSE IF ~PosMatch(line) THEN Null
  ELSE LET house == HouseMatch(line.label).house
           degrees == line.position.degrees
           signAbbr == ToLowerCase(line.position.sign)
           minutes == line.position.minutes
           seconds == line.position.seconds
       IN  IF signAbbr \notin DOMAIN signMap THEN Null
           ELSE LET signInfo == signMap[signAbbr]
                IN  [ house |-> house,
                      longitude |-> PositionLongitude(signInfo, degrees, minutes, seconds),
                      sign |-> signInfo.name,
                      degree |-> PositionDegree(degrees, minutes, seconds) ]

parseChartPointLine(line) ==
  IF TooFewParts(line) THEN Null
  ELSE IF ~PosMatch(line) THEN Null
  ELSE LET name == line.label
           degrees == line.position.degrees
           signAbbr == ToLowerCase(line.position.sign)
           minutes == line.position.minutes
           seconds == line.position.seconds
       IN  IF signAbbr \notin DOMAIN signMap THEN Null
           ELSE LET signInfo == signMap[signAbbr]
                IN  [ name |-> name,
                      longitude |-> PositionLongitude(signInfo, degrees, minutes, seconds),
                      sign |-> signInfo.name,
                      degree |-> PositionDegree(degrees, minutes, seconds) ]

(***************************************************************************)
(* calculateEphemeris.                                                     *)
(***************************************************************************)

\* The datetime strings new Date() parses into a valid instant: the birth
\* datetime of the tool descriptions, and the strings Date.toISOString gives.
ValidDatetimes ==
  { "1985-04-12T23:20:50Z", "2024-04-12T23:20:50.000Z",
    "2026-11-03T12:00:00.000Z", "2026-11-03T12:00:01.000Z" }

\* Variant of IsInvalidDate: every string counts as a date.
IsInvalidDateNever(datetime) == FALSE

\* isNaN(new Date(datetime).getTime())
IsInvalidDate(datetime) == datetime \notin ValidDatetimes

\* obj[key] = value
Put(obj, key, value) == (key :> value) @@ obj

\* obj[key] is truthy: the maps hold objects only.
Has(obj, key) == key \in DOMAIN obj

\* The empty object {}.
EmptyObject == << >>

\* Variant of KeepLine: only blank lines are filtered out.
KeepLineWithMarks(line) ==
  ~(line.label = "" /\ line.position.kind = "nocomma")

\* line.trim() && !line.includes('error:') && !line.includes('warning:')
KeepLine(line) ==
  /\ ~(line.label = "" /\ line.position.kind = "nocomma")
  /\ line.mark # "error:"
  /\ line.mark # "warning:"

\* output.split('\n').filter(...)
FilterLines(output) == SelectSeq(output, KeepLine)

\* Properties every object literal inherits from Object.prototype, each with
\* the string its value turns into when it is used as a property key (these
\* four; hasOwnProperty, isPrototypeOf and the others behave alike).
ObjectPrototype ==
  ("constructor" :> "function Object() { [native code] }")
    @@ ("toString" :> "function toString() { [native code] }")
    @@ ("valueOf" :> "function valueOf() { [native code] }")
    @@ ("__proto__" :> "[object Object]")

\* planetNames[planet.name] || planet.name, as the key of planets[name]: the
\* lookup finds the table's own entries (a body mapped to itself is left
\* out here) and the properties the table inherits.
PlanetName(name) ==
  CASE name = "mean Node" -> "North Node"
    [] name = "true Node" -> "North Node"
    [] name = "mean Apogee" -> "Lilith"
    [] name \in DOMAIN ObjectPrototype -> ObjectPrototype[name]
    [] OTHER -> name

\* pointNames[chartPoint.name] || chartPoint.name, as the key of
\* chartPoints[name].
PointName(name) ==
  CASE name = "MC" -> "Midheaven"
    [] name \in DOMAIN ObjectPrototype -> ObjectPrototype[name]
    [] OTHER -> name

\* planetLines.forEach(...), from line n on.
RECURSIVE ParsePlanets(_, _, _)
ParsePlanets(planetLines, n, planets) ==
  IF n > Len(planetLines) THEN planets
  ELSE LET planet == parsePlanetLine(planetLines[n])
       IN  IF planet # Null
           THEN ParsePlanets(planetLines, n + 1,
                  Put(planets, PlanetName(planet.name),
                      ChartPoint(planet.longitude, planet.sign, planet.degree)))
           ELSE ParsePlanets(planetLines, n + 1, planets)

\* line.includes('house ')
IsHouseLine(line) == Includes(line.label, "house ")

\* line.includes('Ascendant') || line.includes('MC') || line.includes('ARMC')
\*   || line.includes('Vertex')
IsChartPointLine(line) ==
  \/ Includes(line.label, "Ascendant")
  \/ Includes(line.label, "MC")
  \/ Includes(line.label, "ARMC")
  \/ Includes(line.label, "Vertex")

\* Variant of HouseInRange: the index is only checked to be positive.
HouseInRangeNoUpperBound(house) == house.house >= 1

\* house.house >= 1 && house.house <= 12
HouseInRange(house) == house.house >= 1 /\ house.house <= 12

\* houseLines.forEach(...), from line n on: the houses and the chart points.
RECURSIVE ParseHouses(_, _, _, _)
ParseHouses(houseLines, n, houses, chartPoints) ==
  IF n > Len(houseLines)
  THEN [houses |-> houses, chartPoints |-> chartPoints]
  ELSE LET line == houseLines[n]
       IN  IF IsHouseLine(line)
           THEN LET house == parseHouseLine(line)
                IN  IF house # Null /\ HouseInRange(house)
                    THEN ParseHouses(houseLines, n + 1,
                           Put(houses, house.house,
                               ChartPoint(house.longitude, house.sign, house.degree)),
                           chartPoints)
                    ELSE ParseHouses(houseLines, n + 1, houses, chartPoints)
           ELSE IF IsChartPointLine(line)
           THEN LET chartPoint == parseChartPointLine(line)
                IN  IF chartPoint # Null
                    THEN ParseHouses(houseLines, n + 1, houses,
                           Put(chartPoints, PointName(chartPoint.name),
                               ChartPoint(chartPoint.longitude, chartPoint.sign,
                                          chartPoint.degree)))
                    ELSE ParseHouses(houseLines, n + 1, houses, chartPoints)
           ELSE ParseHouses(houseLines, n + 1, houses, chartPoints)

\* Variant of SignAt: the array is read from index 1.
SignAtFromOne(signIndex) ==
  IF signIndex \in 1..12 THEN signs[signIndex] ELSE "undefined"

\* signs[signIndex]: undefined outside 0..11.
SignAt(signIndex) ==
  IF signIndex \in 0..11 THEN signs[signIndex + 1] ELSE "undefined"

\* { longitude: lon, sign: signs[Math.floor(lon / 30)],
\*   degree: Math.round((lon % 30) * 100) / 100 }
DerivedPoint(lon) ==
  ChartPoint(lon, SignAt(lon \div Deg(30)), Round2(JsRem(lon, Deg(30))))

\* Variant of Opposite: the sum is not reduced modulo 360.
OppositeNoWrap(lon) == lon + Deg(180)

\* (lon + 180) % 360
Opposite(lon) == JsRem(lon + Deg(180), Deg(360))

\* Variant of FortuneLongitude: a negative remainder is kept.
FortuneLongitudeNoFix(ascLon, sunLon, moonLon) ==
  JsRem(ascLon + moonLon - sunLon, Deg(360))

\* let fortuneLon = (ascLon + moonLon - sunLon) % 360;
\* if (fortuneLon < 0) fortuneLon += 360;
FortuneLongitude(ascLon, sunLon, moonLon) ==
  LET fortuneLon == JsRem(ascLon + moonLon - sunLon, Deg(360))
  IN  IF fortuneLon < 0 THEN fortuneLon + Deg(360) ELSE fortuneLon

\* if (planets['North Node'])
HasNorthNode(planets) == Has(planets, "North Node")

\* if (chartPoints.Ascendant && planets.Sun && planets.Moon)
HasFortuneInputs(chartPoints, planets) ==
  Has(chartPoints, "Ascendant") /\ Has(planets, "Sun") /\ Has(planets, "Moon")

\* Variant of HasAscendant: the Descendant also waits for the Midheaven.
HasAscendantAndMidheaven(chartPoints) ==
  Has(chartPoints, "Ascendant") /\ Has(chartPoints, "Midheaven")

\* if (chartPoints.Ascendant)
HasAscendant(chartPoints) == Has(chartPoints, "Ascendant")

\* if (chartPoints.Midheaven)
HasMidheaven(chartPoints) == Has(chartPoints, "Midheaven")

\* additionalPoints: South Node, then Part of Fortune.
AdditionalPoints(planets, chartPoints) ==
  LET withSouthNode ==
        IF HasNorthNode(planets)
        THEN Put(EmptyObject, "South Node",
                 DerivedPoint(Opposite(planets["North Node"].longitude)))
        ELSE EmptyObject
  IN  IF HasFortuneInputs(chartPoints, planets)
      THEN Put(withSouthNode, "Part of Fortune",
               DerivedPoint(FortuneLongitude(chartPoints["Ascendant"].longitude,
                                             planets["Sun"].longitude,
                                             planets["Moon"].longitude)))
      ELSE withSouthNode

\* chartPoints with Descendant, then IC, added.
WithOppositeAngles(chartPoints) ==
  LET withDescendant ==
        IF HasAscendant(chartPoints)
        THEN Put(chartPoints, "Descendant",
                 DerivedPoint(Opposite(chartPoints["Ascendant"].longitude)))
        ELSE chartPoints
  IN  IF HasMidheaven(withDescendant)
      THEN Put(withDescendant, "IC",
               DerivedPoint(Opposite(withDescendant["Midheaven"].longitude)))
      ELSE withDescendant

\* What execSync gave: the text printed, or the error thrown with its
\* message.
ExecOk(output) == [ok |-> TRUE, output |-> output, message |-> ""]

ExecFailed(message) == [ok |-> FALSE, output |-> << >>, message |-> message]

\* Variant of Threw: the catch around execSync swallows the error and the
\* output stays empty.
ThrewNever(exec) == FALSE

\* execSync(...) threw: the catch block around it runs.
Threw(exec) == ~exec.ok

\* throw new Error(`Swiss Ephemeris calculation failed: ${error.message}`):
\* the message is the sequence of the pieces the template strings join.
Failure(message) ==
  [error |-> << "Swiss Ephemeris calculation failed: " >> \o message]

IsChart(r) == "planets" \in DOMAIN r

\* Variant of NewPlanets: planets is created once, outside the function, and
\* still holds the bodies of the call before.
PlanetsLeftBehind ==
  IF /\ history # << >>
     /\ "result" \in DOMAIN history[Len(history)]
     /\ IsChart(history[Len(history)].result)
  THEN history[Len(history)].result.planets
  ELSE EmptyObject

\* const planets = {}
NewPlanets == EmptyObject

\* calculateEphemeris(datetime, latitude, longitude), planetExec and
\* houseExec being what the two execSync calls give when they are made.
calculateEphemeris(datetime, latitude, longitude, planetExec, houseExec) ==
  IF IsInvalidDate(datetime)
  THEN Failure(<< "Invalid datetime format. Use ISO8601 format like 1985-04-12T23:20:50Z" >>)
  ELSE IF Threw(planetExec)
  THEN Failure(<< "Failed to execute swetest for planets: ", planetExec.message >>)
  ELSE IF Threw(houseExec)
  THEN Failure(<< "Failed to execute swetest for houses: ", houseExec.message >>)
  ELSE LET planets == ParsePlanets(FilterLines(planetExec.output), 1, NewPlanets)
           parsed == ParseHouses(FilterLines(houseExec.output), 1,
                                 EmptyObject, EmptyObject)
           additionalPoints == AdditionalPoints(planets, parsed.chartPoints)
           chartPoints == WithOppositeAngles(parsed.chartPoints)
       IN  [ planets |-> planets,
             houses |-> parsed.houses,
             chart_points |-> chartPoints,
             additional_points |-> additionalPoints,
             datetime |-> datetime,
             coordinates |-> [latitude |-> latitude, longitude |-> longitude] ]

\* The execSync calls a calculateEphemeris call makes, in order.
Invocations(datetime, planetExec, houseExec) ==
  IF IsInvalidDate(datetime) THEN << >>
  ELSE IF Threw(planetExec) THEN << "planets" >>
  ELSE << "planets", "houses" >>

(***************************************************************************)
(* calculateSynastryAspects.                                               *)
(***************************************************************************)

\* aspectAngles, in the insertion order Object.entries walks.
aspectNames ==
  << "conjunction", "semisextile", "sextile", "square", "trine",
     "quincunx", "opposition" >>

aspectAngles ==
  [ conjunction |-> 0, semisextile |-> 30, sextile |-> 60, square |-> 90,
    trine |-> 120, quincunx |-> 150, opposition |-> 180 ]

\* Variant of aspectOrbs: the quincunx window reaches into the trine's and
\* the opposition's.
aspectOrbsOverlapping ==
  [ conjunction |-> 8, opposition |-> 8, trine |-> 8, square |-> 8,
    sextile |-> 6, quincunx |-> 25, semisextile |-> 3 ]

aspectOrbs ==
  [ conjunction |-> 8, opposition |-> 8, trine |-> 8, square |-> 8,
    sextile |-> 6, quincunx |-> 3, semisextile |-> 3 ]

\* Variant of mainPlanets: the node and an asteroid are walked too.
mainPlanetsAndOthers ==
  << "Sun", "Moon", "Mercury", "Venus", "Mars", "Jupiter", "Saturn",
     "Uranus", "Neptune", "Pluto", "North Node", "Chiron" >>

\* Main planets for synastry analysis.
mainPlanets ==
  << "Sun", "Moon", "Mercury", "Venus", "Mars", "Jupiter", "Saturn",
     "Uranus", "Neptune", "Pluto" >>

\* !person1Planets[planet1]: a key the map holds maps to an object, which
\* is truthy.
HasPlanet(planets, planet) == planet \in DOMAIN planets

\* Variant of Distance: the difference is taken without Math.abs.
DistanceSigned(lon1, lon2) ==
  LET distance == lon1 - lon2
  IN  IF distance > Deg(180) THEN Deg(360) - distance ELSE distance

\* let distance = Math.abs(lon1 - lon2); if (distance > 180) distance = 360 - distance
Distance(lon1, lon2) ==
  LET distance == Abs(lon1 - lon2)
  IN  IF distance > Deg(180) THEN Deg(360) - distance ELSE distance

\* Variant of InOrb: the edge of the orb is left out.
InOrbStrict(angleDiff, orb) == angleDiff < Deg(orb)

\* if (angleDiff <= orb)
InOrb(angleDiff, orb) == angleDiff <= Deg(orb)

\* The record pushed for one planet pair and one aspect type.
AspectRecord(planet1, planet2, aspectName, angleDiff, distance, p1, p2) ==
  [ person1_planet |-> planet1,
    person2_planet |-> planet2,
    aspect |-> aspectName,
    orb |-> ToFixed2(angleDiff),
    exact_angle |-> ToFixed2(distance),
    person1_position |-> p1,
    person2_position |-> p2 ]

\* The inner loop over Object.entries(aspectAngles), from entry k on.
RECURSIVE AspectsOfPair(_, _, _, _, _)
AspectsOfPair(planet1, planet2, p1, p2, k) ==
  IF k > Len(aspectNames) THEN << >>
  ELSE LET aspectName == aspectNames[k]
           distance == Distance(p1.longitude, p2.longitude)
           angleDiff == Abs(distance - Deg(aspectAngles[aspectName]))
           rest == AspectsOfPair(planet1, planet2, p1, p2, k + 1)
       IN  IF InOrb(angleDiff, aspectOrbs[aspectName])
           THEN << AspectRecord(planet1, planet2, aspectName, angleDiff,
                                distance, p1, p2) >> \o rest
           ELSE rest

\* The loop over person 2's main planets, from planet j on.
RECURSIVE AspectsOfPlanet(_, _, _, _)
AspectsOfPlanet(planet1, person1Planets, person2Planets, j) ==
  IF j > Len(mainPlanets) THEN << >>
  ELSE LET planet2 == mainPlanets[j]
           rest == AspectsOfPlanet(planet1, person1Planets, person2Planets, j + 1)
       IN  IF ~HasPlanet(person2Planets, planet2) THEN rest
           ELSE AspectsOfPair(planet1, planet2, person1Planets[planet1],
                              person2Planets[planet2], 1) \o rest

\* The loop over person 1's main planets, from planet i on.
RECURSIVE AspectsFrom(_, _, _)
AspectsFrom(person1Planets, person2Planets, i) ==
  IF i > Len(mainPlanets) THEN << >>
  ELSE LET planet1 == mainPlanets[i]
           rest == AspectsFrom(person1Planets, person2Planets, i + 1)
       IN  IF ~HasPlanet(person1Planets, planet1) THEN rest
           ELSE AspectsOfPlanet(planet1, person1Planets, person2Planets, 1) \o rest

\* Variant of InsertByOrb: a record goes before the records of equal orb.
RECURSIVE InsertByOrbUnstable(_, _)
InsertByOrbUnstable(sorted, a) ==
  IF sorted = << >> THEN << a >>
  ELSE IF a.orb <= Head(sorted).orb THEN << a >> \o sorted
       ELSE << Head(sorted) >> \o InsertByOrbUnstable(Tail(sorted), a)

\* Insertion of record a into a list sorted by orb, after every record whose
\* orb is not larger (what keeps the sort stable).
RECURSIVE InsertByOrb(_, _)
InsertByOrb(sorted, a) ==
  IF sorted = << >> THEN << a >>
  ELSE IF a.orb < Head(sorted).orb THEN << a >> \o sorted
       ELSE << Head(sorted) >> \o InsertByOrb(Tail(sorted), a)

RECURSIVE SortFrom(_, _, _)
SortFrom(list, sorted, n) ==
  IF n > Len(list) THEN sorted
  ELSE SortFrom(list, InsertByOrb(sorted, list[n]), n + 1)

\* aspects.sort((a, b) => parseFloat(a.orb) - parseFloat(b.orb)):
\* Array.prototype.sort is stable (ECMAScript 2019; the package requires
\* node >= 18).
SortByOrb(list) == SortFrom(list, << >>, 1)

calculateSynastryAspects(person1Planets, person2Planets) ==
  SortByOrb(AspectsFrom(person1Planets, person2Planets, 1))


(***************************************************************************)
(* State.                                                                  *)
(***************************************************************************)

VARIABLES
  person1Planets,    \* first argument of calculateSynastryAspects
  person2Planets,    \* second argument of calculateSynastryAspects
  synastry_aspects,  \* the list calculateSynastryAspects returned
  planetOutput,      \* the lines swetest prints for the body positions
  houseOutput,       \* the lines swetest prints for the houses and angles
  call,              \* the calculateEphemeris call made: its arguments and
                     \* the execSync calls it made, each with its outcome
  result,            \* what calculateEphemeris returned or threw
  lineText,          \* the line handed to the three line parsers
  parsed,            \* what each of the three line parsers returned for it
  transports,        \* HTTP mode: the map of transports by session ID
  requests,          \* HTTP mode: the requests to /mcp, each with the place
                     \* its handler has reached and the answer it was given
  pc                 \* where the run is

vars ==
  << person1Planets, person2Planets, synastry_aspects, planetOutput,
     houseOutput, call, result, lineText, parsed, history, transports,
     requests, pc >>

NotCalled == << "not called" >>

(***************************************************************************)
(* The aspect engine on its own: SpecAspects.                              *)
(***************************************************************************)

\* The largest number of bodies in one planet map.
MaxPlanets == 2

\* A well-formed chart point at longitude lon in [0, 360).
PointAt(lon) == ChartPoint(lon, signs[(lon \div Deg(30)) + 1], Round2(lon % Deg(30)))

\* Bodies of person 1's map: two main planets and a node.
Person1Bodies == {"Sun", "Moon", "North Node"}

\* Bodies of person 2's map: two main planets and an asteroid.
Person2Bodies == {"Sun", "Moon", "Chiron"}

\* Longitudes of person 1's bodies: 0, 10 and (for the wrap past 180) 280
\* degrees.
Person1Longitudes == {Deg(0), Deg(10), Deg(280)}

\* Longitudes of person 2's bodies: each orb window's edge as seen from 0
\* degrees, one unit past the square's edge, and the spec's 95 and 100.
Person2Longitudes ==
  { Deg(8), Deg(33), Deg(66), Deg(95), Deg(98), Deg(98) + 1, Deg(100),
    Deg(128), Deg(153), Deg(172) }

PlanetMaps(bodies, longitudes) ==
  UNION { [S -> {PointAt(lon) : lon \in longitudes}] :
            S \in {T \in SUBSET bodies : Cardinality(T) <= MaxPlanets} }

InitAspects ==
  /\ person1Planets \in PlanetMaps(Person1Bodies, Person1Longitudes)
  /\ person2Planets \in PlanetMaps(Person2Bodies, Person2Longitudes)
  /\ synastry_aspects = NotCalled
  /\ planetOutput = << >>
  /\ houseOutput = << >>
  /\ call = NotCalled
  /\ result = NotCalled
  /\ lineText = NotCalled
  /\ parsed = NotCalled
  /\ history = << >>
  /\ transports = << >>
  /\ requests = << >>
  /\ pc = "ready"

\* One call of calculateSynastryAspects(person1Planets, person2Planets).
CalculateSynastryAspects ==
  /\ pc = "ready"
  /\ synastry_aspects' = calculateSynastryAspects(person1Planets, person2Planets)
  /\ pc' = "done"
  /\ UNCHANGED << person1Planets, person2Planets, planetOutput, houseOutput,
                  call, result, lineText, parsed, history,
                  transports, requests >>

NextAspects == CalculateSynastryAspects

SpecAspects == InitAspects /\ [][NextAspects]_vars

(***************************************************************************)
(* One chart assembly: Spec.  The calculator's two outputs are built line  *)
(* by line, then calculateEphemeris runs on them.                          *)
(***************************************************************************)

\* The largest number of lines in the two calculator outputs together.
MaxLines == 3

\* 15 ar  0' 0.0: 15 degrees.
P15Aries == Position(15, "ar", 0, 0)

\* 29 pi 59'45.0: 0.0042 degrees before the end of Pisces.
PEndOfPisces == Position(29, "pi", 59, 450)

\* 22 le 53'51.2: the spec's Sun.
PLeo == Position(22, "le", 53, 512)

\* 45 pi  0' 0.0: matches the grammar with degrees beyond the sign's 30.
P45Pisces == Position(45, "pi", 0, 0)

\* 13 cn 39'52.5: the spec's first house.
PCancer == Position(13, "cn", 39, 525)

\* The lines the body-position output is made of.
PlanetLineSet ==
  { Line("Sun", "", P15Aries), Line("Sun", "", PLeo),
    Line("Moon", "", P15Aries), Line("Moon", "", PEndOfPisces),
    Line("true Node", "", P15Aries), Line("true Node", "", PEndOfPisces),
    Line("true Node", "", P45Pisces), Line("mean Node", "", PLeo),
    Line("Pholus", "", P15Aries), Line("Sun", "warning:", PCancer) }

\* The lines the house output is made of.
HouseLineSet ==
  { Line("Ascendant", "", P15Aries), Line("Ascendant", "", PEndOfPisces),
    Line("MC", "", P15Aries), Line("MC", "", P45Pisces),
    Line("house  1", "", PCancer), Line("house 13", "", P15Aries),
    Line("Vertex", "", P15Aries), Line("Ascendant", "error:", PLeo) }

\* The datetime arguments: one new Date() parses, one it does not.
Datetimes == { "1985-04-12T23:20:50Z", "yesterday" }

\* The (latitude, longitude) arguments.
Coordinates == { << 48, 2 >> }

Init ==
  /\ person1Planets = << >>
  /\ person2Planets = << >>
  /\ synastry_aspects = NotCalled
  /\ planetOutput = << >>
  /\ houseOutput = << >>
  /\ call = NotCalled
  /\ result = NotCalled
  /\ lineText = NotCalled
  /\ parsed = NotCalled
  /\ history = << >>
  /\ transports = << >>
  /\ requests = << >>
  /\ pc = "swetest"

\* The calculator's body-position output has one more line.
PlanetLinePrinted ==
  /\ pc = "swetest"
  /\ Len(planetOutput) + Len(houseOutput) < MaxLines
  /\ \E line \in PlanetLineSet : planetOutput' = Append(planetOutput, line)
  /\ UNCHANGED << person1Planets, person2Planets, synastry_aspects,
                  houseOutput, call, result, lineText, parsed, history, pc,
                  transports, requests >>

\* The calculator's house output has one more line.
HouseLinePrinted ==
  /\ pc = "swetest"
  /\ Len(planetOutput) + Len(houseOutput) < MaxLines
  /\ \E line \in HouseLineSet : houseOutput' = Append(houseOutput, line)
  /\ UNCHANGED << person1Planets, person2Planets, synastry_aspects,
                  planetOutput, call, result, lineText, parsed, history, pc,
                  transports, requests >>

\* The messages of the errors execSync throws: the command exited with a
\* status other than 0, or the shell could not be started.
ExecMessages == { "Command failed: swetest", "spawnSync /bin/sh ENOENT" }

\* What an execSync call can give when the calculator would print output.
ExecOutcomes(output) ==
  { ExecOk(output) } \cup { ExecFailed(message) : message \in ExecMessages }

\* One call of calculateEphemeris: each execSync call it makes either gives
\* the calculator's output or throws.
CalculateEphemeris ==
  /\ pc = "swetest"
  /\ \E datetime \in Datetimes, coordinates \in Coordinates,
        planetExec \in ExecOutcomes(planetOutput),
        houseExec \in ExecOutcomes(houseOutput) :
       LET invoked == Invocations(datetime, planetExec, houseExec)
       IN  /\ result' = calculateEphemeris(datetime, coordinates[1],
                                           coordinates[2], planetExec, houseExec)
           /\ call' = [ datetime |-> datetime,
                        latitude |-> coordinates[1],
                        longitude |-> coordinates[2],
                        execs |-> [ n \in DOMAIN invoked |->
                                      LET exec == IF invoked[n] = "planets"
                                                  THEN planetExec ELSE houseExec
                                      IN  [ command |-> invoked[n],
                                            ok |-> exec.ok,
                                            message |-> exec.message ] ] ]
  /\ pc' = "returned"
  /\ UNCHANGED << person1Planets, person2Planets, synastry_aspects,
                  planetOutput, houseOutput, lineText, parsed, history,
                  transports, requests >>

Next == PlanetLinePrinted \/ HouseLinePrinted \/ CalculateEphemeris

Spec == Init /\ [][Next]_vars

(***************************************************************************)
(* One chart assembly on output that holds more than positions: SpecText.  *)
(* The two outputs are built from lines the parsers drop and from labels   *)
(* outside the tables, next to well-formed lines.                          *)
(***************************************************************************)

\* 15 xx  0' 0.0: matches the grammar with two letters that are no sign.
PUnknownSign == Position(15, "xx", 0, 0)

\* The lines the body-position output is made of: well-formed lines, a
\* second field that is no position, a blank line, a line without a comma,
\* an unknown sign, a line marked as an error, and labels in and outside
\* the synonym table.
PlanetTextSet ==
  { Line("Sun", "", PLeo), Line("Moon", "", P15Aries),
    Line("Sun", "", NoMatch), Line("", "", NoComma),
    Line("using Moshier ephemeris", "", NoComma),
    Line("Moon", "", PUnknownSign), Line("Moon", "error:", PLeo),
    Line("true Node", "", PCancer), Line("mean Apogee", "", P15Aries),
    Line("constructor", "", P15Aries) }

\* The lines the house output is made of: cusps in and out of range, a cusp
\* whose second field is no position, the angles, a line marked as a
\* warning, and labels that are no angle name.
HouseTextSet ==
  { Line("house  1", "", PCancer), Line("house 13", "", P15Aries),
    Line("house  1", "", NoMatch), Line("Ascendant", "", P15Aries),
    Line("MC", "", PLeo), Line("ARMC", "", PCancer),
    Line("Vertex", "warning:", PLeo), Line("equat. Asc.", "", P15Aries),
    Line("Anti-Vertex", "", P15Aries) }

\* The calculator's body-position output has one more line.
PlanetTextPrinted ==
  /\ pc = "swetest"
  /\ Len(planetOutput) + Len(houseOutput) < MaxLines
  /\ \E line \in PlanetTextSet : planetOutput' = Append(planetOutput, line)
  /\ UNCHANGED << person1Planets, person2Planets, synastry_aspects,
                  houseOutput, call, result, lineText, parsed, history, pc,
                  transports, requests >>

\* The calculator's house output has one more line.
HouseTextPrinted ==
  /\ pc = "swetest"
  /\ Len(planetOutput) + Len(houseOutput) < MaxLines
  /\ \E line \in HouseTextSet : houseOutput' = Append(houseOutput, line)
  /\ UNCHANGED << person1Planets, person2Planets, synastry_aspects,
                  planetOutput, call, result, lineText, parsed, history, pc,
                  transports, requests >>

NextText == PlanetTextPrinted \/ HouseTextPrinted \/ CalculateEphemeris

SpecText == Init /\ [][NextText]_vars

(***************************************************************************)
(* One tool call: SpecTools.  handleToolCall runs on the arguments of the  *)
(* request; each chart assembly it starts is recorded, in order, with the  *)
(* calculator invocations it made.                                         *)
(***************************************************************************)

\* The JSON values of the arguments of a tool call.
Str(s) == [type |-> "string", string |-> s]

Num(n) == [type |-> "number", number |-> n]

Undefined == [type |-> "undefined"]

\* The destructured argument: undefined when the key is missing.
Arg(args, key) == IF key \in DOMAIN args THEN args[key] ELSE Undefined

\* !datetime || typeof datetime !== 'string'
NotAString(v) == v.type # "string" \/ v.string = ""

\* typeof x !== 'number' || x < lo || x > hi
NotInRange(v, lo, hi) == v.type # "number" \/ v.number < lo \/ v.number > hi

\* throw new McpError(ErrorCode.InvalidParams, message)
InvalidParams(message) ==
  [type |-> "McpError", code |-> "InvalidParams", message |-> message]

\* throw new McpError(ErrorCode.MethodNotFound, `Unknown tool: ${name}`)
MethodNotFound(name) ==
  [type |-> "McpError", code |-> "MethodNotFound",
   message |-> << "Unknown tool: ", name >>]

\* Reading .longitude of an undefined planets.Sun or .planets of no chart,
\* or destructuring arguments that are undefined.
TypeError == [type |-> "TypeError"]

\* A run of the handler: the calls it made, and what it returned or threw.
Return(trace, value) == [trace |-> trace, outcome |-> [ok |-> TRUE, value |-> value]]

Throw(trace, error) == [trace |-> trace, outcome |-> [ok |-> FALSE, error |-> error]]

\* this.calculateEphemeris(datetime, latitude, longitude), execs being what
\* the two execSync calls give when they are made: the call with the
\* invocations it made and with what it returned or threw.  The latitude
\* and the longitude are passed on as the JSON values they are.
Assembly(datetime, latitude, longitude, execs) ==
  LET invoked == Invocations(datetime, execs[1], execs[2])
  IN  [ op |-> "calculateEphemeris",
        datetime |-> datetime,
        latitude |-> latitude,
        longitude |-> longitude,
        execs |-> [ n \in DOMAIN invoked |->
                      [ command |-> invoked[n],
                        exec |-> IF invoked[n] = "planets"
                                 THEN execs[1] ELSE execs[2] ] ],
        result |-> calculateEphemeris(datetime, latitude, longitude,
                                      execs[1], execs[2]) ]

\* Variant of Thrown: the failure of an assembly is caught and the handler
\* goes on.
ThrownNever(assembly) == FALSE

\* The calculateEphemeris call threw: the handler ends with its error.
Thrown(assembly) == ~IsChart(assembly.result)

\* this.calculateSynastryAspects(person1NatalChart.planets,
\*                               person2NatalChart.planets)
AspectsCall(chart1, chart2) ==
  [ op |-> "calculateSynastryAspects",
    aspects |-> calculateSynastryAspects(chart1.planets, chart2.planets) ]

\* new Date(return_year, birthDate.getMonth(), birthDate.getDate(),
\*          birthDate.getHours(), birthDate.getMinutes(),
\*          birthDate.getSeconds()).toISOString(), the local time zone being
\* UTC.
ReturnDateISOString(birth_datetime, return_year) ==
  CASE birth_datetime = "1985-04-12T23:20:50Z" /\ return_year = 2024
         -> "2024-04-12T23:20:50.000Z"

\* return this.calculateEphemeris(datetime, latitude, longitude)
PositionsResult(chart) ==
  IF Thrown(chart) THEN Throw(<< chart >>, chart.result)
  ELSE Return(<< chart >>, chart.result)

\* case 'calculate_planetary_positions': the runs of the handler, one for
\* each thing the calls it makes can give.
PlanetaryPositions(args, env) ==
  LET datetime == Arg(args, "datetime")
      latitude == Arg(args, "latitude")
      longitude == Arg(args, "longitude")
  IN  IF NotAString(datetime)
      THEN { Throw(<< >>, InvalidParams("datetime parameter is required and must be a string")) }
      ELSE IF NotInRange(latitude, -90, 90)
      THEN { Throw(<< >>, InvalidParams("latitude must be a number between -90 and 90")) }
      ELSE IF NotInRange(longitude, -180, 180)
      THEN { Throw(<< >>, InvalidParams("longitude must be a number between -180 and 180")) }
      ELSE { PositionsResult(chart) :
               chart \in { Assembly(datetime.string, latitude, longitude,
                                    env.execs[1]) } }

\* Variant of TransitsResult: calculation_time is the birth datetime.
TransitsResultBirthTime(natalChart, currentEphemeris, currentISOString) ==
  IF Thrown(currentEphemeris)
  THEN Throw(<< natalChart, currentEphemeris >>, currentEphemeris.result)
  ELSE Return(<< natalChart, currentEphemeris >>,
              [ natal_chart |-> natalChart.result,
                current_transits |-> currentEphemeris.result,
                calculation_time |-> natalChart.datetime ])

\* return { natal_chart, current_transits, calculation_time }
TransitsResult(natalChart, currentEphemeris, currentISOString) ==
  IF Thrown(currentEphemeris)
  THEN Throw(<< natalChart, currentEphemeris >>, currentEphemeris.result)
  ELSE Return(<< natalChart, currentEphemeris >>,
              [ natal_chart |-> natalChart.result,
                current_transits |-> currentEphemeris.result,
                calculation_time |-> currentISOString ])

\* calculate_transits from the birth chart on.
TransitsOf(natalChart, birth_latitude, birth_longitude, env) ==
  IF Thrown(natalChart) THEN { Throw(<< natalChart >>, natalChart.result) }
  ELSE { TransitsResult(natalChart, currentEphemeris, env.now) :
           currentEphemeris \in { Assembly(env.now, birth_latitude,
                                           birth_longitude, env.execs[2]) } }

\* case 'calculate_transits'
Transits(args, env) ==
  LET birth_datetime == Arg(args, "birth_datetime")
      birth_latitude == Arg(args, "latitude")
      birth_longitude == Arg(args, "longitude")
  IN  IF NotAString(birth_datetime)
      THEN { Throw(<< >>, InvalidParams("birth_datetime parameter is required and must be a string")) }
      ELSE IF NotInRange(birth_latitude, -90, 90)
      THEN { Throw(<< >>, InvalidParams("birth_latitude must be a number between -90 and 90")) }
      ELSE IF NotInRange(birth_longitude, -180, 180)
      THEN { Throw(<< >>, InvalidParams("birth_longitude must be a number between -180 and 180")) }
      ELSE UNION { TransitsOf(natalChart, birth_latitude, birth_longitude, env) :
                     natalChart \in { Assembly(birth_datetime.string, birth_latitude,
                                               birth_longitude, env.execs[1]) } }

\* chart.planets.Sun.longitude: a TypeError when the chart holds no Sun.
HasSun(chart) == IsChart(chart) /\ Has(chart.planets, "Sun")

\* return { natal_chart, solar_return_chart, natal_sun_longitude,
\*          return_sun_longitude, calculation_time }
SolarRevolutionResult(srNatalChart, solarReturnChart, returnDate, returnLat, returnLon, now) ==
  IF Thrown(solarReturnChart)
  THEN Throw(<< srNatalChart, solarReturnChart >>, solarReturnChart.result)
  ELSE IF ~HasSun(solarReturnChart.result)
  THEN Throw(<< srNatalChart, solarReturnChart >>, TypeError)
  ELSE Return(<< srNatalChart, solarReturnChart >>,
         [ natal_chart |-> srNatalChart.result,
           solar_return_chart |->
             [ planets |-> solarReturnChart.result.planets,
               houses |-> solarReturnChart.result.houses,
               chart_points |-> solarReturnChart.result.chart_points,
               additional_points |-> solarReturnChart.result.additional_points,
               datetime |-> returnDate,
               coordinates |-> [latitude |-> returnLat, longitude |-> returnLon] ],
           natal_sun_longitude |-> srNatalChart.result.planets["Sun"].longitude,
           return_sun_longitude |-> solarReturnChart.result.planets["Sun"].longitude,
           calculation_time |-> now ])

\* Variant of ReturnLocation: the birth coordinate is used in any case.
ReturnLocationAlwaysBirth(returned, birth) == birth

\* return_latitude !== undefined ? return_latitude : sr_birth_latitude, and
\* the same for the longitude: no check of type or range is made.
ReturnLocation(returned, birth) ==
  IF returned # Undefined THEN returned ELSE birth

\* calculate_solar_revolution from the birth chart on.
SolarRevolutionOf(srNatalChart, args, env) ==
  LET return_latitude == Arg(args, "return_latitude")
      return_longitude == Arg(args, "return_longitude")
      returnDate == ReturnDateISOString(Arg(args, "birth_datetime").string,
                                        Arg(args, "return_year").number)
      returnLat == ReturnLocation(return_latitude, Arg(args, "birth_latitude"))
      returnLon == ReturnLocation(return_longitude, Arg(args, "birth_longitude"))
  IN  IF Thrown(srNatalChart)
      THEN { Throw(<< srNatalChart >>, srNatalChart.result) }
      ELSE IF ~HasSun(srNatalChart.result)
      THEN { Throw(<< srNatalChart >>, TypeError) }
      ELSE { SolarRevolutionResult(srNatalChart, solarReturnChart, returnDate,
                                   returnLat, returnLon, env.now) :
               solarReturnChart \in { Assembly(returnDate, returnLat, returnLon,
                                               env.execs[2]) } }

\* case 'calculate_solar_revolution'
SolarRevolution(args, env) ==
  LET sr_birth_datetime == Arg(args, "birth_datetime")
      sr_birth_latitude == Arg(args, "birth_latitude")
      sr_birth_longitude == Arg(args, "birth_longitude")
      return_year == Arg(args, "return_year")
  IN  IF NotAString(sr_birth_datetime)
      THEN { Throw(<< >>, InvalidParams("birth_datetime parameter is required and must be a string")) }
      ELSE IF NotInRange(sr_birth_latitude, -90, 90)
      THEN { Throw(<< >>, InvalidParams("birth_latitude must be a number between -90 and 90")) }
      ELSE IF NotInRange(sr_birth_longitude, -180, 180)
      THEN { Throw(<< >>, InvalidParams("birth_longitude must be a number between -180 and 180")) }
      ELSE IF NotInRange(return_year, 1900, 2100)
      THEN { Throw(<< >>, InvalidParams("return_year must be a number between 1900 and 2100")) }
      ELSE UNION { SolarRevolutionOf(srNatalChart, args, env) :
                     srNatalChart \in { Assembly(sr_birth_datetime.string,
                                                 sr_birth_latitude,
                                                 sr_birth_longitude,
                                                 env.execs[1]) } }

\* return { person1_chart, person2_chart, synastry_aspects, calculation_time }
SynastryResult(person1NatalChart, person2NatalChart, aspects, now) ==
  Return(<< person1NatalChart, person2NatalChart, aspects >>,
         [ person1_chart |-> person1NatalChart.result,
           person2_chart |-> person2NatalChart.result,
           synastry_aspects |-> aspects.aspects,
           calculation_time |-> now ])

\* calculate_synastry from the second chart on.
SynastryOfBoth(person1NatalChart, person2NatalChart, env) ==
  IF Thrown(person2NatalChart)
  THEN { Throw(<< person1NatalChart, person2NatalChart >>,
               person2NatalChart.result) }
  ELSE IF ~IsChart(person1NatalChart.result) \/ ~IsChart(person2NatalChart.result)
  THEN { Throw(<< person1NatalChart, person2NatalChart >>, TypeError) }
  ELSE { SynastryResult(person1NatalChart, person2NatalChart, aspects, env.now) :
           aspects \in { AspectsCall(person1NatalChart.result,
                                     person2NatalChart.result) } }

\* calculate_synastry from the first chart on.
SynastryOf(person1NatalChart, args, env) ==
  IF Thrown(person1NatalChart)
  THEN { Throw(<< person1NatalChart >>, person1NatalChart.result) }
  ELSE UNION { SynastryOfBoth(person1NatalChart, person2NatalChart, env) :
                 person2NatalChart \in
                   { Assembly(Arg(args, "person2_datetime").string,
                              Arg(args, "person2_latitude"),
                              Arg(args, "person2_longitude"), env.execs[2]) } }

\* case 'calculate_synastry'
Synastry(args, env) ==
  LET person1_datetime == Arg(args, "person1_datetime")
      person1_latitude == Arg(args, "person1_latitude")
      person1_longitude == Arg(args, "person1_longitude")
      person2_datetime == Arg(args, "person2_datetime")
      person2_latitude == Arg(args, "person2_latitude")
      person2_longitude == Arg(args, "person2_longitude")
  IN  IF NotAString(person1_datetime)
      THEN { Throw(<< >>, InvalidParams("person1_datetime parameter is required and must be a string")) }
      ELSE IF NotInRange(person1_latitude, -90, 90)
      THEN { Throw(<< >>, InvalidParams("person1_latitude must be a number between -90 and 90")) }
      ELSE IF NotInRange(person1_longitude, -180, 180)
      THEN { Throw(<< >>, InvalidParams("person1_longitude must be a number between -180 and 180")) }
      ELSE IF NotAString(person2_datetime)
      THEN { Throw(<< >>, InvalidParams("person2_datetime parameter is required and must be a string")) }
      ELSE IF NotInRange(person2_latitude, -90, 90)
      THEN { Throw(<< >>, InvalidParams("person2_latitude must be a number between -90 and 90")) }
      ELSE IF NotInRange(person2_longitude, -180, 180)
      THEN { Throw(<< >>, InvalidParams("person2_longitude must be a number between -180 and 180")) }
      ELSE UNION { SynastryOf(person1NatalChart, args, env) :
                     person1NatalChart \in
                       { Assembly(person1_datetime.string, person1_latitude,
                                  person1_longitude, env.execs[1]) } }

\* The cases of the switch of handleToolCall.
ToolNames ==
  { "calculate_planetary_positions", "calculate_transits",
    "calculate_solar_revolution", "calculate_synastry" }

\* handleToolCall(name, args), env being what the calculator and the clock
\* give during the call: the run of the handler, as a set of one run.
\* const { ... } = args throws a TypeError when the request came without
\* arguments.
handleToolCall(name, args, env) ==
  IF name \in ToolNames /\ args = Undefined THEN { Throw(<< >>, TypeError) }
  ELSE CASE name = "calculate_planetary_positions" -> PlanetaryPositions(args, env)
         [] name = "calculate_transits" -> Transits(args, env)
         [] name = "calculate_solar_revolution" -> SolarRevolution(args, env)
         [] name = "calculate_synastry" -> Synastry(args, env)
         [] OTHER -> { Throw(<< >>, MethodNotFound(name)) }

\* The birth datetime of the requests.
BirthDatetime == "1985-04-12T23:20:50Z"

\* The tool calls: well-formed ones; ones with a datetime that is no
\* date; ones with a parameter missing, of the wrong type or out of range;
\* ones without arguments (the arguments of a tools/call request are
\* optional); one for a tool the server does not have.
ToolRequests ==
  { [ name |-> "calculate_planetary_positions",
      args |-> [datetime |-> d, latitude |-> la, longitude |-> Num(2)] ] :
      d \in { Str(BirthDatetime), Str("yesterday"), Undefined },
      la \in { Num(48), Num(91) } }
  \cup
  { [ name |-> "calculate_transits",
      args |-> [birth_datetime |-> d, latitude |-> Num(48), longitude |-> lo] ] :
      d \in { Str(BirthDatetime), Str("yesterday") },
      lo \in { Num(2), Str("2") } }
  \cup
  { [ name |-> "calculate_solar_revolution",
      args |-> there @@ [ birth_datetime |-> Str(BirthDatetime),
                          birth_latitude |-> Num(48),
                          birth_longitude |-> Num(2),
                          return_year |-> y ] ] :
      y \in { Num(2024), Num(1899) },
      there \in { EmptyObject,
                  [return_latitude |-> Num(40)],
                  [return_latitude |-> Num(40), return_longitude |-> Num(-74)],
                  [return_latitude |-> Num(95), return_longitude |-> Num(-74)],
                  [return_latitude |-> Num(40), return_longitude |-> Str("2")] } }
  \cup
  { [ name |-> "calculate_synastry",
      args |-> [ person1_datetime |-> d1, person1_latitude |-> Num(48),
                 person1_longitude |-> Num(2), person2_datetime |-> d2,
                 person2_latitude |-> Num(40), person2_longitude |-> Num(-74) ] ] :
      d1 \in { Str(BirthDatetime), Str("yesterday") },
      d2 \in { Str(BirthDatetime), Str("yesterday"), Undefined } }
  \cup
  { [ name |-> n, args |-> Undefined ] :
      n \in { "calculate_planetary_positions", "calculate_synastry" } }
  \cup
  { [ name |-> "calculate_progressions", args |-> EmptyObject ] }

\* Body-position output with a Sun and a Moon, and with a Moon only.
BodiesWithSun == << Line("Sun", "", PLeo), Line("Moon", "", P15Aries) >>

\* Body-position output with the Sun about half a degree further on, as at
\* the same day and hour of another year.
BodiesWithSunAhead ==
  << Line("Sun", "", Position(23, "le", 26, 0)), Line("Moon", "", P15Aries) >>

BodiesWithoutSun == << Line("Moon", "", PEndOfPisces) >>

\* House output with a cusp and the Ascendant.
CuspAndAscendant ==
  << Line("house  1", "", PCancer), Line("Ascendant", "", P15Aries) >>

\* What the two execSync calls of one chart assembly can give.
AssemblyExecs ==
  { ExecOk(BodiesWithSun), ExecOk(BodiesWithSunAhead), ExecOk(BodiesWithoutSun),
    ExecFailed("Command failed: swetest") }
    \X ExecOutcomes(CuspAndAscendant)

\* What the calculator and the clock give during one tool call: the outcome
\* of the execSync calls of the first and of the second chart assembly, and
\* new Date().toISOString().
ToolEnvironments ==
  [ execs : AssemblyExecs \X AssemblyExecs,
    now : { "2026-11-03T12:00:00.000Z", "2026-11-03T12:00:01.000Z" } ]

InitTools ==
  /\ person1Planets = << >>
  /\ person2Planets = << >>
  /\ synastry_aspects = NotCalled
  /\ planetOutput = << >>
  /\ houseOutput = << >>
  /\ call \in { [name |-> r.name, args |-> r.args, trace |-> << >>] :
                   r \in ToolRequests }
  /\ result = NotCalled
  /\ lineText = NotCalled
  /\ parsed = NotCalled
  /\ history = << >>
  /\ transports = << >>
  /\ requests = << >>
  /\ pc = "listening"

\* The server handles the tool call: handleToolCall runs to its end.
HandleToolCall ==
  /\ pc = "listening"
  /\ \E env \in ToolEnvironments :
       \E run \in handleToolCall(call.name, call.args, env) :
         /\ call' = [call EXCEPT !.trace = run.trace]
         /\ result' = run.outcome
  /\ pc' = "answered"
  /\ UNCHANGED << person1Planets, person2Planets, synastry_aspects,
                  planetOutput, houseOutput, lineText, parsed, history,
                  transports, requests >>

NextTools == HandleToolCall

SpecTools == InitTools /\ [][NextTools]_vars

(***************************************************************************)
(* A server that assembles one chart after the other: SpecCalls.  Each     *)
(* call of calculateEphemeris and of calculateSynastryAspects is kept in   *)
(* history with what it was given and what it returned or threw.           *)
(***************************************************************************)

\* The largest number of calls in one run.
MaxCalls == 3

\* What a call left in history: a chart, or nothing of a chart.
ChartOf(entry) ==
  IF entry.op = "calculateEphemeris" THEN entry.result ELSE Failure(<< >>)

InitCalls ==
  /\ person1Planets = << >>
  /\ person2Planets = << >>
  /\ synastry_aspects = NotCalled
  /\ planetOutput = << >>
  /\ houseOutput = << >>
  /\ call = NotCalled
  /\ result = NotCalled
  /\ lineText = NotCalled
  /\ parsed = NotCalled
  /\ history = << >>
  /\ transports = << >>
  /\ requests = << >>
  /\ pc = "serving"

\* One call of calculateEphemeris.
EphemerisCalled ==
  /\ pc = "serving"
  /\ Len(history) < MaxCalls
  /\ \E datetime \in Datetimes, coordinates \in Coordinates,
        execs \in AssemblyExecs :
       \E assembly \in { Assembly(datetime, coordinates[1], coordinates[2], execs) } :
         /\ history' = Append(history, assembly)
         /\ result' = assembly.result
  /\ UNCHANGED << person1Planets, person2Planets, synastry_aspects,
                  planetOutput, houseOutput, call, lineText, parsed, pc,
                  transports, requests >>

\* One call of calculateSynastryAspects on the planets of two charts that
\* were returned before.
AspectsCalled ==
  /\ pc = "serving"
  /\ Len(history) < MaxCalls
  /\ \E m, n \in DOMAIN history :
       /\ IsChart(ChartOf(history[m]))
       /\ IsChart(ChartOf(history[n]))
       /\ \E aspects \in { AspectsCall(history[m].result, history[n].result) } :
            /\ history' = Append(history, aspects)
            /\ synastry_aspects' = aspects.aspects
  /\ UNCHANGED << person1Planets, person2Planets, planetOutput, houseOutput,
                  call, result, lineText, parsed, pc,
                  transports, requests >>

NextCalls == EphemerisCalled \/ AspectsCalled

SpecCalls == InitCalls /\ [][NextCalls]_vars

(***************************************************************************)
(* The three line parsers on their own: SpecParsers.                       *)
(***************************************************************************)

\* The sign fields of the lines: the twelve abbreviations, two of them
\* again in capitals, and two letters that are no sign.
SignFields == DOMAIN signMap \cup { "LE", "Le", "PI", "xx" }

\* The lines handed to the parsers: a body, a house and an angle label,
\* each with no second field, with a second field that is no position, and
\* with the positions of 0, 22 and 29 degrees, 0, 53 and 59 minutes and 0,
\* 18, 51.2 and 59.9 seconds in each sign field.
ParserLines ==
  { Line(label, "", position) :
      label \in { "Sun", "house  1", "Ascendant" },
      position \in { NoComma, NoMatch }
                     \cup { Position(degrees, sign, minutes, seconds) :
                              degrees \in { 0, 22, 29 }, sign \in SignFields,
                              minutes \in { 0, 53, 59 },
                              seconds \in { 0, 180, 512, 599 } } }

InitParsers ==
  /\ person1Planets = << >>
  /\ person2Planets = << >>
  /\ synastry_aspects = NotCalled
  /\ planetOutput = << >>
  /\ houseOutput = << >>
  /\ call = NotCalled
  /\ result = NotCalled
  /\ lineText \in ParserLines
  /\ parsed = NotCalled
  /\ history = << >>
  /\ transports = << >>
  /\ requests = << >>
  /\ pc = "line"

\* The line goes through parsePlanetLine, parseHouseLine and
\* parseChartPointLine.
ParseLine ==
  /\ pc = "line"
  /\ parsed' = [ planet |-> parsePlanetLine(lineText),
                 house |-> parseHouseLine(lineText),
                 chartPoint |-> parseChartPointLine(lineText) ]
  /\ pc' = "parsed"
  /\ UNCHANGED << person1Planets, person2Planets, synastry_aspects,
                  planetOutput, houseOutput, call, result, lineText, history,
                  transports, requests >>

NextParsers == ParseLine

SpecParsers == InitParsers /\ [][NextParsers]_vars

(***************************************************************************)
(* HTTP mode: SpecHttp.  Requests to /mcp arrive one after the other; the  *)
(* handler of a request runs to its first await, and the handlers that     *)
(* wait go on in any order.                                                *)
(***************************************************************************)

\* The largest number of requests to /mcp in one run.
MaxRequests == 3

\* req.headers['mcp-session-id'] of a request without the header.
NoSessionId == ""

\* What the session ID generator can give.
SessionIds == { "s1", "s2" }

\* The session ID headers of the requests: none, the IDs the generator can
\* give, and the name of a property every object inherits.
SessionIdHeaders == { NoSessionId, "constructor" } \cup SessionIds

\* A JSON-RPC message of a request body, and null.
Message(method) == [type |-> "object", method |-> method]

JsonNull == [type |-> "null", method |-> ""]

\* The request bodies: an initialize request, a tool call, a batch that
\* holds the initialize request after another message, a batch that holds
\* null.
Bodies ==
  { [isArray |-> FALSE, items |-> << Message("initialize") >>],
    [isArray |-> FALSE, items |-> << Message("tools/call") >>],
    [isArray |-> TRUE, items |-> << Message("notifications/initialized"),
                                   Message("initialize") >>],
    [isArray |-> TRUE, items |-> << JsonNull >>] }

\* body.some(request => request.method === 'initialize') from item n on:
\* reading .method of null throws a TypeError.
RECURSIVE SomeInitialize(_, _)
SomeInitialize(items, n) ==
  IF n > Len(items) THEN "false"
  ELSE IF items[n].type = "null" THEN "TypeError"
  ELSE IF items[n].method = "initialize" THEN "true"
  ELSE SomeInitialize(items, n + 1)

\* isInitializeRequest(body): "true", "false", or "TypeError" when it
\* throws.
isInitializeRequest(body) ==
  IF body.isArray THEN SomeInitialize(body.items, 1)
  ELSE IF body.items[1].method = "initialize" THEN "true" ELSE "false"

\* No transport; also what transports[sessionId] gives for an unknown ID.
NoTransport == 0

\* What transports[sessionId] gives for the name of an inherited property:
\* an object that is no transport.
InheritedProperty == -1

\* transports[sessionId]: transports is an object literal, so the lookup
\* goes on to Object.prototype.
TransportOf(sessionId) ==
  IF sessionId \in DOMAIN transports THEN transports[sessionId]
  ELSE IF sessionId \in DOMAIN ObjectPrototype THEN InheritedProperty
  ELSE NoTransport

\* The transports that have answered an initialize request with the
\* session ID.
Issuers(sessionId) ==
  { i \in DOMAIN requests :
      requests[i].sessionId = sessionId /\ requests[i].status = 200 }

\* A request as it arrives, with the state of the sessions at that moment.
Arrived(header, body) ==
  [ header |-> header,
    body |-> body,
    stored |-> header \in DOMAIN transports,
    issuers |-> IF header = NoSessionId THEN {} ELSE Issuers(header),
    pc |-> "arrived",
    transport |-> NoTransport,
    sessionId |-> NoSessionId,
    status |-> 0 ]

\* The handler answers the request with the status, through the transport
\* when there is one, and ends.
Answer(request, status, transport) ==
  [request EXCEPT !.status = status, !.transport = transport, !.pc = "done"]

\* The handler of /mcp up to its first await or its end.  A session ID
\* that finds a transport hands the request to transport.handleRequest,
\* which is a TypeError caught as status 500 when what was found is no
\* transport; no session ID and an initialize request create a transport,
\* which is given the number of the request, and wait for
\* this.server.connect(transport); anything else is answered 400.
Receive ==
  /\ pc = "http"
  /\ Len(requests) < MaxRequests
  /\ \E header \in SessionIdHeaders, body \in Bodies :
       LET request == Arrived(header, body)
           n == Len(requests) + 1
           found == TransportOf(header)
       IN  requests' = Append(requests,
             IF header # NoSessionId /\ found # NoTransport
             THEN IF found = InheritedProperty
                  THEN Answer(request, 500, NoTransport)
                  ELSE Answer(request, 200, found)
             ELSE IF header = NoSessionId /\ isInitializeRequest(body) = "TypeError"
             THEN Answer(request, 500, NoTransport)
             ELSE IF header = NoSessionId /\ isInitializeRequest(body) = "true"
             THEN [request EXCEPT !.pc = "connecting", !.transport = n]
             ELSE Answer(request, 400, NoTransport))
  /\ UNCHANGED << person1Planets, person2Planets, synastry_aspects,
                  planetOutput, houseOutput, call, result, lineText, parsed,
                  history, transports, pc >>

\* await transport.handleRequest(req, res, req.body) of a new transport:
\* the transport draws its session ID and the initialize request is
\* answered with it.
HandleInitialize ==
  /\ pc = "http"
  /\ \E n \in DOMAIN requests :
       /\ requests[n].pc = "connecting"
       /\ \E sessionId \in SessionIds :
            requests' = [requests EXCEPT ![n].sessionId = sessionId,
                                         ![n].status = 200,
                                         ![n].pc = "handling"]
  /\ UNCHANGED << person1Planets, person2Planets, synastry_aspects,
                  planetOutput, houseOutput, call, result, lineText, parsed,
                  history, transports, pc >>

\* transports[transport.sessionId] = transport, after handleRequest has
\* returned.
StoreTransport ==
  /\ pc = "http"
  /\ \E n \in DOMAIN requests :
       /\ requests[n].pc = "handling"
       /\ transports' = (requests[n].sessionId :> requests[n].transport) @@ transports
       /\ requests' = [requests EXCEPT ![n].pc = "done"]
  /\ UNCHANGED << person1Planets, person2Planets, synastry_aspects,
                  planetOutput, houseOutput, call, result, lineText, parsed,
                  history, pc >>

InitHttp ==
  /\ person1Planets = << >>
  /\ person2Planets = << >>
  /\ synastry_aspects = NotCalled
  /\ planetOutput = << >>
  /\ houseOutput = << >>
  /\ call = NotCalled
  /\ result = NotCalled
  /\ lineText = NotCalled
  /\ parsed = NotCalled
  /\ history = << >>
  /\ transports = << >>
  /\ requests = << >>
  /\ pc = "http"

NextHttp == Receive \/ HandleInitialize \/ StoreTransport

SpecHttp == InitHttp /\ [][NextHttp]_vars

(***************************************************************************)
(* Claims about the aspect engine, checked under SpecAspects.              *)
(***************************************************************************)

\* The ten main planets, as the claims name them.
TenPlanets ==
  { "Sun", "Moon", "Mercury", "Venus", "Mars", "Jupiter", "Saturn",
    "Uranus", "Neptune", "Pluto" }

\* The seven aspect types with the target angle and the maximum orb the
\* claims state, in degrees.
ClaimedAspects ==
  [ conjunction |-> << 0, 8 >>, semisextile |-> << 30, 3 >>,
    sextile |-> << 60, 6 >>, square |-> << 90, 8 >>, trine |-> << 120, 8 >>,
    quincunx |-> << 150, 3 >>, opposition |-> << 180, 8 >> ]

Min(a, b) == IF a <= b THEN a ELSE b

\* The shortest angular separation of two longitudes.
Separation(a, b) == Min(Abs(a - b), Deg(360) - Abs(a - b))

\* The places of the returned list that hold a record of (p1, p2).
RecordsOfPair(p1, p2) ==
  { n \in DOMAIN synastry_aspects :
      /\ synastry_aspects[n].person1_planet = p1
      /\ synastry_aspects[n].person2_planet = p2 }

RecordsOfType(p1, p2, type) ==
  { n \in RecordsOfPair(p1, p2) : synastry_aspects[n].aspect = type }

\* C1: for every main planet p1 of A, main planet p2 of B and aspect type,
\* a record (p1, p2, type) is returned if and only if |d - target| <= maxOrb,
\* d the shortest separation; there is one such record, its orb is
\* |d - target| and its exact angle d, to two decimals.  Longitudes 10 and
\* 100 give one aspect, a square of orb 0.00 and angle 90.00; longitudes 0
\* and 95 give one aspect, a square of orb 5.00.
C1_AspectIffWithinOrb ==
  pc = "done" =>
    \A p1 \in TenPlanets \cap DOMAIN person1Planets :
      \A p2 \in TenPlanets \cap DOMAIN person2Planets :
        LET lon1 == person1Planets[p1].longitude
            lon2 == person2Planets[p2].longitude
            d == Separation(lon1, lon2)
        IN  /\ \A type \in DOMAIN ClaimedAspects :
                 LET target == Deg(ClaimedAspects[type][1])
                     maxOrb == Deg(ClaimedAspects[type][2])
                     found == RecordsOfType(p1, p2, type)
                 IN  IF Abs(d - target) <= maxOrb
                     THEN /\ Cardinality(found) = 1
                          /\ \A n \in found :
                               /\ synastry_aspects[n].orb = ToFixed2(Abs(d - target))
                               /\ synastry_aspects[n].exact_angle = ToFixed2(d)
                     ELSE found = {}
            /\ \A n \in RecordsOfPair(p1, p2) :
                 synastry_aspects[n].aspect \in DOMAIN ClaimedAspects
            /\ (lon1 = Deg(10) /\ lon2 = Deg(100)) =>
                 /\ Cardinality(RecordsOfPair(p1, p2)) = 1
                 /\ \A n \in RecordsOfPair(p1, p2) :
                      /\ synastry_aspects[n].aspect = "square"
                      /\ synastry_aspects[n].orb = 0
                      /\ synastry_aspects[n].exact_angle = 9000
            /\ (lon1 = Deg(0) /\ lon2 = Deg(95)) =>
                 /\ Cardinality(RecordsOfPair(p1, p2)) = 1
                 /\ \A n \in RecordsOfPair(p1, p2) :
                      /\ synastry_aspects[n].aspect = "square"
                      /\ synastry_aspects[n].orb = 500

\* C1's case: a call returned, one pair sits exactly on the edge of the
\* square's orb (0 and 98 degrees, orb 8.00) and is an aspect, another pair
\* is one unit past it and is none.
C1_Witness ==
  /\ pc = "done"
  /\ \E n \in DOMAIN synastry_aspects :
       /\ synastry_aspects[n].aspect = "square"
       /\ synastry_aspects[n].orb = 800
       /\ synastry_aspects[n].person2_position.longitude = Deg(98)
  /\ \E p1 \in TenPlanets \cap DOMAIN person1Planets :
       \E p2 \in TenPlanets \cap DOMAIN person2Planets :
         /\ person1Planets[p1].longitude = Deg(0)
         /\ person2Planets[p2].longitude = Deg(98) + 1
         /\ RecordsOfPair(p1, p2) = {}

IndexOf(seq, x) == CHOOSE i \in DOMAIN seq : seq[i] = x

\* The place of a record in the enumeration: person 1's planets in the
\* fixed order, then person 2's, then the aspect type.
EnumerationRank(a) ==
  << IndexOf(mainPlanets, a.person1_planet),
     IndexOf(mainPlanets, a.person2_planet),
     IndexOf(aspectNames, a.aspect) >>

LexLess(x, y) ==
  \/ x[1] < y[1]
  \/ x[1] = y[1] /\ x[2] < y[2]
  \/ x[1] = y[1] /\ x[2] = y[2] /\ x[3] < y[3]

\* C2: the returned list is non-decreasing in orb, and two aspects of equal
\* orb appear in the order of their enumeration.
C2_SortedByOrbStable ==
  pc = "done" =>
    \A m, n \in DOMAIN synastry_aspects :
      m < n =>
        /\ synastry_aspects[m].orb <= synastry_aspects[n].orb
        /\ synastry_aspects[m].orb = synastry_aspects[n].orb =>
             LexLess(EnumerationRank(synastry_aspects[m]),
                     EnumerationRank(synastry_aspects[n]))

\* C2's case: the returned list holds two aspects of equal orb and a tighter
\* aspect that was enumerated after a wider one.
C2_Witness ==
  /\ pc = "done"
  /\ \E m, n \in DOMAIN synastry_aspects :
       /\ m < n
       /\ synastry_aspects[m].orb = synastry_aspects[n].orb
  /\ \E m, n \in DOMAIN synastry_aspects :
       /\ m < n
       /\ synastry_aspects[m].orb < synastry_aspects[n].orb
       /\ LexLess(EnumerationRank(synastry_aspects[n]),
                  EnumerationRank(synastry_aspects[m]))

\* The bag of (planet, planet, exact angle, aspect type, orb) of a list,
\* with the two persons' roles swapped when swap is TRUE.
AspectBag(list, swap) ==
  LET key(a) == << IF swap THEN a.person2_planet ELSE a.person1_planet,
                   IF swap THEN a.person1_planet ELSE a.person2_planet,
                   a.exact_angle, a.aspect, a.orb >>
      keys == { key(list[n]) : n \in DOMAIN list }
  IN  [ k \in keys |-> Cardinality({ n \in DOMAIN list : key(list[n]) = k }) ]

\* C3: calculateSynastryAspects(A, B) and calculateSynastryAspects(B, A)
\* hold the same multiset of (exact angle, aspect type, orb), an aspect
\* (p1, p2) of the first being an aspect (p2, p1) of the second.
C3_AspectSymmetry ==
  pc = "done" =>
    AspectBag(synastry_aspects, FALSE)
      = AspectBag(calculateSynastryAspects(person2Planets, person1Planets), TRUE)

\* C3's case: a call returned aspects between two different planets at
\* different longitudes, person 1's the larger.
C3_Witness ==
  /\ pc = "done"
  /\ \E n \in DOMAIN synastry_aspects :
       /\ synastry_aspects[n].person1_planet # synastry_aspects[n].person2_planet
       /\ synastry_aspects[n].person1_position.longitude
            > synastry_aspects[n].person2_position.longitude

\* C4 as stated: both planets of every aspect are among the ten main planets,
\* and each of the two is present in both planet maps.
C4_Original_PresentInBothMaps ==
  pc = "done" =>
    \A n \in DOMAIN synastry_aspects :
      LET a == synastry_aspects[n]
      IN  /\ a.person1_planet \in TenPlanets
          /\ a.person2_planet \in TenPlanets
          /\ {a.person1_planet, a.person2_planet} \subseteq DOMAIN person1Planets
          /\ {a.person1_planet, a.person2_planet} \subseteq DOMAIN person2Planets

\* C4 amended: both planets of every aspect are among the ten main planets
\* (never a node, Lilith or an asteroid); person1_planet is present in
\* person 1's map and person2_planet is present in person 2's map.
C4_MainPlanetsOfOwnMap ==
  pc = "done" =>
    \A n \in DOMAIN synastry_aspects :
      LET a == synastry_aspects[n]
      IN  /\ a.person1_planet \in TenPlanets
          /\ a.person2_planet \in TenPlanets
          /\ a.person1_planet \in DOMAIN person1Planets
          /\ a.person2_planet \in DOMAIN person2Planets

\* C4's case: person 1's map holds a node and person 2's an asteroid, both
\* within orb of a planet of the other map, and aspects were returned.
C4_Witness ==
  /\ pc = "done"
  /\ synastry_aspects # << >>
  /\ "North Node" \in DOMAIN person1Planets
  /\ "Chiron" \in DOMAIN person2Planets
  /\ \E p2 \in TenPlanets \cap DOMAIN person2Planets :
       Separation(person1Planets["North Node"].longitude,
                  person2Planets[p2].longitude) <= Deg(8)
  /\ \E p1 \in TenPlanets \cap DOMAIN person1Planets :
       Separation(person1Planets[p1].longitude,
                  person2Planets["Chiron"].longitude) <= Deg(8)

(***************************************************************************)
(* Claims about the chart assembly, checked under Spec.                    *)
(***************************************************************************)

\* calculateEphemeris returned a chart.
ChartReturned == pc = "returned" /\ IsChart(result)

PointsOf(obj) == { obj[k] : k \in DOMAIN obj }

\* Every point of the returned chart.
AllPoints ==
  PointsOf(result.planets) \cup PointsOf(result.houses)
    \cup PointsOf(result.chart_points) \cup PointsOf(result.additional_points)

\* The offset of a sign, in units: 30 degrees for each sign before it, Aries
\* first.
SignOffset(sign) ==
  Deg(30) * ((CHOOSE i \in 1..12 : signs[i] = sign) - 1)

\* The distance of two angles around the circle.
CircularDistance(a, b) ==
  LET d == Abs(a - b) % Deg(360)
  IN  Min(d, Deg(360) - d)

\* All lines of the two outputs.
OutputLines ==
  { planetOutput[n] : n \in DOMAIN planetOutput }
    \cup { houseOutput[n] : n \in DOMAIN houseOutput }

AllLinesAccepted ==
  \A line \in OutputLines :
    /\ line.position.kind = "match"
    /\ ToLowerCase(line.position.sign) \in DOMAIN signMap

\* C6: every point of a returned chart has longitude in [0, 360), whenever
\* every line of the calculator output is accepted by the position grammar.
C6_LongitudeInRange ==
  (ChartReturned /\ AllLinesAccepted) =>
    \A pt \in AllPoints : pt.longitude >= 0 /\ pt.longitude < Deg(360)

\* Every line holds degrees in 0..29, minutes in 0..59 and seconds in
\* [0, 60).
AllLinesWithinSign ==
  \A line \in OutputLines :
    /\ line.position.kind = "match"
    /\ line.position.degrees \in 0..29
    /\ line.position.minutes \in 0..59
    /\ line.position.seconds >= 0
    /\ line.position.seconds < 600

\* C7: every point of a returned chart, parsed or derived, has its 2-decimal
\* degree in [0, 30), strictly below 30.00, whenever every position has
\* degrees in 0..29, minutes in 0..59 and seconds in [0, 60).
C7_DegreeBelow30 ==
  (ChartReturned /\ AllLinesWithinSign) =>
    \A pt \in AllPoints : pt.degree >= 0 /\ pt.degree < 3000

\* The pairs (derived point, the point it is opposite to) of the chart.
OppositePairs ==
  ( IF "South Node" \in DOMAIN result.additional_points
    THEN { << result.additional_points["South Node"], result.planets["North Node"] >> }
    ELSE {} )
  \cup
  ( IF "Descendant" \in DOMAIN result.chart_points
    THEN { << result.chart_points["Descendant"], result.chart_points["Ascendant"] >> }
    ELSE {} )
  \cup
  ( IF "IC" \in DOMAIN result.chart_points
    THEN { << result.chart_points["IC"], result.chart_points["Midheaven"] >> }
    ELSE {} )

\* The longitude opposite to lon, in [0, 360).
OppositeLongitude(lon) == (lon + Deg(180)) % Deg(360)

\* The nearest number of hundredths of a degree to x units, a half going up.
NearestHundredth(x) ==
  CHOOSE h \in 0..3000 :
    h * UnitsPerHundredth <= x + (UnitsPerHundredth \div 2)
      /\ x + (UnitsPerHundredth \div 2) < (h + 1) * UnitsPerHundredth

\* C8 as stated: a derived opposite point has longitude (source + 180) mod
\* 360, the floor(longitude / 30)-th sign, and degree = longitude mod 30.
C8_Original_DegreeIsLongitudeMod30 ==
  ChartReturned =>
    \A pair \in OppositePairs :
      LET lon == OppositeLongitude(pair[2].longitude)
      IN  /\ pair[1].longitude = lon
          /\ pair[1].sign = signs[(lon \div Deg(30)) + 1]
          /\ pair[1].degree * UnitsPerHundredth = lon % Deg(30)

\* C8 amended: a derived opposite point has longitude (source + 180) mod 360,
\* the floor(longitude / 30)-th sign, and degree = longitude mod 30 rounded
\* to two decimals, a half going up.  North Node at 15.0 gives South Node
\* {longitude 195.0, sign Libra, degree 15.00}.
C8_OppositePoints ==
  ChartReturned =>
    /\ \A pair \in OppositePairs :
         LET lon == OppositeLongitude(pair[2].longitude)
         IN  /\ pair[1].longitude = lon
             /\ pair[1].sign = signs[(lon \div Deg(30)) + 1]
             /\ pair[1].degree = NearestHundredth(lon % Deg(30))
    /\ ("North Node" \in DOMAIN result.planets
          /\ result.planets["North Node"].longitude = Deg(15)) =>
         result.additional_points["South Node"]
           = [longitude |-> Deg(195), sign |-> "Libra", degree |-> 1500]

\* C8's case: a chart with a South Node, a Descendant and an IC, one of
\* them opposite to a point past 180 degrees (so that the sum wraps) and
\* at a longitude that is no whole number of hundredths.
C8_Witness ==
  /\ ChartReturned
  /\ "South Node" \in DOMAIN result.additional_points
  /\ "Descendant" \in DOMAIN result.chart_points
  /\ "IC" \in DOMAIN result.chart_points
  /\ \E pair \in OppositePairs :
       /\ pair[2].longitude > Deg(180)
       /\ pair[1].longitude % UnitsPerHundredth # 0

\* The call had a valid datetime and both calculator invocations succeeded.
CalculatorSucceeded ==
  /\ pc = "returned"
  /\ call.datetime \in ValidDatetimes
  /\ Len(call.execs) = 2
  /\ \A n \in DOMAIN call.execs : call.execs[n].ok

\* C9: in a returned chart South Node is present iff North Node is,
\* Descendant iff Ascendant, IC iff Midheaven, Part of Fortune iff
\* Ascendant, Sun and Moon all are; and with a valid datetime and a
\* calculator that succeeds a chart is returned, whichever prerequisites
\* are missing.
C9_DerivedIffPrerequisite ==
  /\ CalculatorSucceeded => IsChart(result)
  /\ ChartReturned =>
       /\ "South Node" \in DOMAIN result.additional_points
            <=> "North Node" \in DOMAIN result.planets
       /\ "Descendant" \in DOMAIN result.chart_points
            <=> "Ascendant" \in DOMAIN result.chart_points
       /\ "IC" \in DOMAIN result.chart_points
            <=> "Midheaven" \in DOMAIN result.chart_points
       /\ "Part of Fortune" \in DOMAIN result.additional_points
            <=> /\ "Ascendant" \in DOMAIN result.chart_points
                /\ "Sun" \in DOMAIN result.planets
                /\ "Moon" \in DOMAIN result.planets

\* C9's case: a chart with an Ascendant and a Sun and no Moon, no North
\* Node and no Midheaven: it holds a Descendant and none of the other
\* derived points.
C9_Witness ==
  /\ ChartReturned
  /\ "Ascendant" \in DOMAIN result.chart_points
  /\ "Sun" \in DOMAIN result.planets
  /\ "Moon" \notin DOMAIN result.planets
  /\ "North Node" \notin DOMAIN result.planets
  /\ "Midheaven" \notin DOMAIN result.chart_points
  /\ DOMAIN result.additional_points = {}
  /\ DOMAIN result.chart_points = {"Ascendant", "Descendant"}

C10_SumBeyond360 ==
  /\ ChartReturned
  /\ "Part of Fortune" \in DOMAIN result.additional_points
  /\ result.chart_points["Ascendant"].longitude + result.planets["Moon"].longitude
       - result.planets["Sun"].longitude >= Deg(360)

(***************************************************************************)
(* Claims about lines the parsers drop and about failures, checked under   *)
(* SpecText and Spec.                                                      *)
(***************************************************************************)

\* A line that can produce a parsed point: it is not blank, holds neither
\* 'error:' nor 'warning:', has two fields, and its second field matches
\* the position grammar with one of the twelve sign abbreviations.
CanProducePoint(l) ==
  /\ ~(l.label = "" /\ l.position.kind = "nocomma")
  /\ l.mark = ""
  /\ l.position.kind = "match"
  /\ ToLowerCase(l.position.sign) \in DOMAIN signMap

\* The number of places of an output whose line can produce a point.
ProducingLines(output) ==
  Cardinality({ n \in DOMAIN output : CanProducePoint(output[n]) })

\* The keys of chart_points that come from lines (Descendant and IC are
\* derived).
ParsedChartPointKeys == DOMAIN result.chart_points \ {"Descendant", "IC"}

\* C11: a line produces a parsed point only if it is not blank, holds
\* neither 'error:' nor 'warning:', has at least two fields and a second
\* field that matches the position grammar with a known sign.  Every other
\* line is dropped silently: with a valid datetime and a calculator that
\* succeeds a chart is returned, and it is the chart the same outputs give
\* with every other line taken out.
C11_OtherLinesDropped ==
  CalculatorSucceeded =>
    /\ IsChart(result)
    /\ Cardinality(DOMAIN result.planets) <= ProducingLines(planetOutput)
    /\ Cardinality(DOMAIN result.houses) + Cardinality(ParsedChartPointKeys)
         <= ProducingLines(houseOutput)
    /\ result = calculateEphemeris(call.datetime, call.latitude, call.longitude,
                   ExecOk(SelectSeq(planetOutput, CanProducePoint)),
                   ExecOk(SelectSeq(houseOutput, CanProducePoint)))

\* C11's case: a chart was returned with a planet in it, from outputs that
\* hold a line marked as an error or a warning and a line whose second
\* field is missing, is no position or names no sign.
C11_Witness ==
  /\ ChartReturned
  /\ DOMAIN result.planets # {}
  /\ \E l \in OutputLines : l.mark # ""
  /\ \E l \in OutputLines :
       /\ l.mark = ""
       /\ \/ l.position.kind # "match"
          \/ ToLowerCase(l.position.sign) \notin DOMAIN signMap

\* The message of the error thrown for a datetime that is no instant.
InvalidDatetimeMessage ==
  << "Swiss Ephemeris calculation failed: ",
     "Invalid datetime format. Use ISO8601 format like 1985-04-12T23:20:50Z" >>

\* C12: a call whose datetime is no valid instant fails with the error that
\* names the invalid datetime format, returns no chart, and makes neither of
\* the two calculator invocations.
C12_InvalidDatetimeRejected ==
  (pc = "returned" /\ call.datetime \notin ValidDatetimes) =>
    /\ ~IsChart(result)
    /\ result = [error |-> InvalidDatetimeMessage]
    /\ call.execs = << >>

\* C12's case: a call with the datetime 'yesterday' returned, the calculator
\* having output ready for both invocations.
C12_Witness ==
  /\ pc = "returned"
  /\ call.datetime = "yesterday"
  /\ planetOutput # << >>
  /\ houseOutput # << >>
  /\ ~IsChart(result)

\* The invocations of the call that failed.
FailedExecs == { n \in DOMAIN call.execs : ~call.execs[n].ok }

\* C13: when a calculator invocation fails, the call fails with an error
\* that ends with the invocation's own error message and returns no chart;
\* each of the two invocations is made at most once, the body positions
\* first, and nothing is invoked after a failure: when the body-position
\* invocation fails the house invocation is not made.
C13_CalculatorFailurePropagates ==
  (pc = "returned" /\ call.datetime \in ValidDatetimes) =>
    /\ Len(call.execs) \in 1..2
    /\ call.execs[1].command = "planets"
    /\ Len(call.execs) = 2 => call.execs[2].command = "houses"
    /\ \A n \in FailedExecs :
         /\ ~IsChart(result)
         /\ result.error[Len(result.error)] = call.execs[n].message
         /\ n = Len(call.execs)
    /\ ~call.execs[1].ok =>
         /\ Len(call.execs) = 1
         /\ result.error[2] = "Failed to execute swetest for planets: "
    /\ (Len(call.execs) = 2 /\ ~call.execs[2].ok) =>
         result.error[2] = "Failed to execute swetest for houses: "

\* C13's case: the house invocation failed after the body-position
\* invocation had printed a line that parses, so that a chart with planets
\* and without houses could have been filled.
C13_Witness ==
  /\ pc = "returned"
  /\ Len(call.execs) = 2
  /\ call.execs[1].ok
  /\ ~call.execs[2].ok
  /\ \E n \in DOMAIN planetOutput : CanProducePoint(planetOutput[n])
  /\ ~IsChart(result)

\* C14: when both invocations succeed and the body-position output is
\* unparseable (it has lines, and none of them matches the position
\* grammar), calculateEphemeris raises an error instead of returning a
\* chart.
C14_UnparseableOutputFails ==
  ( /\ CalculatorSucceeded
    /\ planetOutput # << >>
    /\ \A n \in DOMAIN planetOutput : planetOutput[n].position.kind # "match" )
    => ~IsChart(result)

(***************************************************************************)
(* Claims about the tool handlers, checked under SpecTools.                *)
(***************************************************************************)

\* The tools that assemble two charts.
Orchestrators ==
  { "calculate_transits", "calculate_solar_revolution", "calculate_synastry" }

\* The places of the trace that hold a chart assembly, and those that hold
\* an aspect computation.
AssemblyEvents ==
  { n \in DOMAIN call.trace : call.trace[n].op = "calculateEphemeris" }

AspectEvents ==
  { n \in DOMAIN call.trace : call.trace[n].op = "calculateSynastryAspects" }

\* C15: in calculate_transits, calculate_solar_revolution and
\* calculate_synastry a chart assembly that fails is the last thing the
\* operation starts, and the operation ends with that failure; the aspect
\* computation of calculate_synastry comes third, after two chart
\* assemblies that both returned a chart.
C15_FirstFailureEndsOperation ==
  (pc = "answered" /\ call.name \in Orchestrators) =>
    /\ Cardinality(AssemblyEvents) <= 2
    /\ \A n \in AssemblyEvents :
         ~IsChart(call.trace[n].result) =>
           /\ n = Len(call.trace)
           /\ ~result.ok
           /\ result.error = call.trace[n].result
    /\ \A n \in AspectEvents :
         /\ call.name = "calculate_synastry"
         /\ n = 3
         /\ AssemblyEvents = {1, 2}
         /\ IsChart(call.trace[1].result)
         /\ IsChart(call.trace[2].result)
    /\ (call.name = "calculate_synastry" /\ result.ok) => AspectEvents = {3}

\* C15's case: a calculate_synastry call whose first chart assembly
\* returned a chart and whose second failed at the house invocation: no
\* aspect computation was started.
C15_Witness ==
  /\ pc = "answered"
  /\ call.name = "calculate_synastry"
  /\ Len(call.trace) = 2
  /\ IsChart(call.trace[1].result)
  /\ ~IsChart(call.trace[2].result)
  /\ Len(call.trace[2].execs) = 2
  /\ ~result.ok

\* A tool call whose first chart assembly failed at the body-position
\* invocation: nothing else was started.
C15_FirstAssemblyFailed ==
  /\ pc = "answered"
  /\ call.name \in Orchestrators
  /\ Len(call.trace) = 1
  /\ Len(call.trace[1].execs) = 1
  /\ ~result.ok

(***************************************************************************)
(* Claims about a run of several calls, checked under SpecCalls.           *)
(***************************************************************************)

\* The places of history that hold a calculateEphemeris call.
EphemerisCalls ==
  { n \in DOMAIN history : history[n].op = "calculateEphemeris" }

\* Two calls were given the same arguments, and the calculator did the same
\* for both: the same invocations with the same output text or failure.
SameInputs(m, n) ==
  /\ history[m].datetime = history[n].datetime
  /\ history[m].latitude = history[n].latitude
  /\ history[m].longitude = history[n].longitude
  /\ history[m].execs = history[n].execs

HouseLabelIndex == ("house  1" :> 1) @@ ("house 13" :> 13)

\* The places of the house output whose line is a house line of index N
\* with a valid position.
HouseLinesOf(N) ==
  { n \in DOMAIN houseOutput :
      /\ houseOutput[n].label \in DOMAIN HouseLabelIndex
      /\ HouseLabelIndex[houseOutput[n].label] = N
      /\ CanProducePoint(houseOutput[n]) }

\* C17: the houses of a returned chart have keys in 1..12 only: house N is
\* present exactly when the output holds a house line of index N in 1..12
\* with a valid position, a line of index 13 being dropped; the line
\* 'house  1 ,13 cn 39'52.5' gives house 1 the sign Cancer, the longitude
\* 103.6646 and the degree 13.66.
C17_HousesWithinTwelve ==
  ChartReturned =>
    /\ DOMAIN result.houses \subseteq 1..12
    /\ \A N \in 1..12 : N \in DOMAIN result.houses <=> HouseLinesOf(N) # {}
    /\ HouseLinesOf(1) # {} =>
         result.houses[1] = [ longitude |-> Deg(103) + 39 * 600 + 525,
                              sign |-> "Cancer", degree |-> 1366 ]

\* C17's case: a chart from house output that holds a line of index 13 with
\* a valid position and a line of index 1 with a valid position: house 1 is
\* the only house.
C17_Witness ==
  /\ ChartReturned
  /\ HouseLinesOf(13) # {}
  /\ HouseLinesOf(1) # {}
  /\ DOMAIN result.houses = {1}

\* The four angle names of the allow-list, with the key each is stored
\* under.
AngleKey ==
  [ Ascendant |-> "Ascendant", MC |-> "Midheaven", ARMC |-> "ARMC",
    Vertex |-> "Vertex" ]

\* C18: a line of the house output populates chart_points only when its
\* label is one of Ascendant, MC, ARMC and Vertex, MC being stored as
\* Midheaven and the others under their own name; the keys of chart_points
\* are among Ascendant, Midheaven, ARMC, Vertex, Descendant and IC.
C18_AnglesAllowListed ==
  ChartReturned =>
    /\ DOMAIN result.chart_points
         \subseteq { "Ascendant", "Midheaven", "ARMC", "Vertex", "Descendant", "IC" }
    /\ ParsedChartPointKeys
         = { AngleKey[houseOutput[n].label] :
               n \in { k \in DOMAIN houseOutput :
                         /\ houseOutput[k].label \in DOMAIN AngleKey
                         /\ CanProducePoint(houseOutput[k]) } }

\* The synonym table of the body labels.
CanonicalName(label) ==
  CASE label \in { "mean Node", "true Node" } -> "North Node"
    [] label = "mean Apogee" -> "Lilith"
    [] OTHER -> label

\* The last place of the body-position output whose line has a valid
\* position and a label that canonicalises to name; 0 when there is none.
LastLineOf(name) ==
  LET places == { n \in DOMAIN planetOutput :
                    /\ CanProducePoint(planetOutput[n])
                    /\ CanonicalName(planetOutput[n].label) = name }
  IN  IF places = {} THEN 0 ELSE CHOOSE n \in places : \A k \in places : k <= n

\* C19: the planets of a returned chart are keyed by the canonical name of
\* each body line with a valid position (mean Node and true Node become
\* North Node, mean Apogee becomes Lilith, any other label is kept as it
\* is); the value under a name is that of the last such line, and South
\* Node is opposite to the North Node that was kept.
C19_BodyNamesCanonicalised ==
  ChartReturned =>
    /\ DOMAIN result.planets
         = { CanonicalName(planetOutput[n].label) :
               n \in { k \in DOMAIN planetOutput : CanProducePoint(planetOutput[k]) } }
    /\ \A name \in DOMAIN result.planets :
         LastLineOf(name) # 0 =>
           LET position == planetOutput[LastLineOf(name)].position
           IN  result.planets[name].longitude
                 = PositionLongitude(signMap[ToLowerCase(position.sign)],
                                     position.degrees, position.minutes,
                                     position.seconds)
    /\ "North Node" \in DOMAIN result.planets =>
         /\ "South Node" \in DOMAIN result.additional_points
         /\ result.additional_points["South Node"].longitude
              = OppositeLongitude(result.planets["North Node"].longitude)

(***************************************************************************)
(* Claims about the line parsers, checked under SpecParsers.               *)
(***************************************************************************)

\* The twelve sign abbreviations in the order of the zodiac, Aries first.
Abbreviations ==
  << "ar", "ta", "ge", "cn", "le", "vi", "li", "sc", "sa", "cp", "aq", "pi" >>

\* The place of the sign a sign field names, whatever the case of its
\* letters; 0 when it names none.
SignPlace(field) ==
  IF \E k \in 1..12 : Abbreviations[k] = ToLowerCase(field)
  THEN CHOOSE k \in 1..12 : Abbreviations[k] = ToLowerCase(field)
  ELSE 0

\* C20: for a line whose position field is <deg> <sign> <min>'<sec> with a
\* known sign, in small letters or capitals, parsePlanetLine returns the
\* label as name, the sign's name, longitude = offset + deg + min/60 +
\* sec/3600 and degree = deg + min/60 + sec/3600 to the nearest hundredth, a
\* half going up; 'Sun ,22 le 53'51.2' gives Leo, 142.8975... and 22.90.
C20_ParsedPosition ==
  ( /\ pc = "parsed"
    /\ lineText.position.kind = "match"
    /\ SignPlace(lineText.position.sign) # 0 ) =>
    LET position == lineText.position
        place == SignPlace(position.sign)
        within == Deg(position.degrees) + position.minutes * (Deg(1) \div 60)
                    + position.seconds * (Deg(1) \div 36000)
    IN  /\ parsed.planet # Null
        /\ parsed.planet.name = lineText.label
        /\ parsed.planet.sign = signs[place]
        /\ parsed.planet.longitude = Deg(30) * (place - 1) + within
        /\ parsed.planet.degree = NearestHundredth(within)
        /\ lineText = Line("Sun", "", PLeo) =>
             /\ parsed.planet.sign = "Leo"
             /\ parsed.planet.longitude = Deg(142) + 53 * 600 + 512
             /\ parsed.planet.degree = 2290

\* C20's case: the position 0 LE 0'18.0, whose sign is in capitals and
\* whose 0.005 degrees lie halfway between two hundredths, was parsed into
\* Leo and the degree 0.01.
C20_Witness ==
  /\ pc = "parsed"
  /\ lineText = Line("Sun", "", Position(0, "LE", 0, 180))
  /\ parsed.planet # Null
  /\ parsed.planet.sign = "Leo"
  /\ parsed.planet.degree = 1

\* The results the three parsers gave for the line.
ParserResults == { parsed.planet, parsed.house, parsed.chartPoint }

\* C21: the two directions of the sign table agree: a position of 0 degrees
\* 0'0 in the k-th abbreviation (k from 0, Aries first) is parsed into the
\* longitude 30 * k and a sign name, and the sign list of the derived points
\* gives that longitude the same name and the degree 0.
C21_SignTableDirectionsAgree ==
  ( /\ pc = "parsed"
    /\ lineText.position.kind = "match"
    /\ lineText.position.degrees = 0
    /\ lineText.position.minutes = 0
    /\ lineText.position.seconds = 0 ) =>
    \A point \in ParserResults \ { Null } :
      /\ \E k \in 0..11 : point.longitude = Deg(30 * k)
      /\ point.longitude = Deg(30) * (SignPlace(lineText.position.sign) - 1)
      /\ DerivedPoint(point.longitude)
           = ChartPoint(point.longitude, point.sign, 0)

\* C21's case: the line 'Sun ,0 pi 0'0' was parsed into the last entry of
\* the table, Pisces at 330 degrees, and the derived-point list names 330
\* degrees Pisces.
C21_Witness ==
  /\ pc = "parsed"
  /\ lineText = Line("Sun", "", Position(0, "pi", 0, 0))
  /\ parsed.planet # Null
  /\ parsed.planet.longitude = Deg(330)
  /\ DerivedPoint(parsed.planet.longitude).sign = "Pisces"

\* Two parser results give the same position: none is a position, or both
\* have the same longitude, sign and degree.
SamePosition(a, b) ==
  \/ a = Null /\ b = Null
  \/ /\ a # Null
     /\ b # Null
     /\ a.longitude = b.longitude
     /\ a.sign = b.sign
     /\ a.degree = b.degree

\* C26: the three parsers share one position grammar: on a line with a
\* house label, parsePlanetLine, parseHouseLine and parseChartPointLine all
\* return null or all return the same longitude, sign and degree; on any
\* line parsePlanetLine and parseChartPointLine do.
C26_ParsersShareGrammar ==
  pc = "parsed" =>
    /\ SamePosition(parsed.planet, parsed.chartPoint)
    /\ lineText.label = "house  1" => SamePosition(parsed.planet, parsed.house)

\* C26's case: a house line whose sign is written in capitals was parsed by
\* the three parsers into a position.
C26_Witness ==
  /\ pc = "parsed"
  /\ lineText = Line("house  1", "", Position(22, "LE", 53, 512))
  /\ parsed.planet # Null
  /\ parsed.house # Null
  /\ parsed.chartPoint # Null
  /\ parsed.house.longitude = parsed.planet.longitude

(***************************************************************************)
(* A further claim about the aspect engine, checked under SpecAspects.     *)
(***************************************************************************)

\* C25: for planet maps with longitudes in [0, 360), the separation of
\* every returned record is min(|lonA - lonB|, 360 - |lonA - lonB|) and
\* lies in [0, 180], its orb is at least 0 and at most the maximum orb of
\* its aspect type, and each ordered planet pair has at most one record, so
\* that the list is no longer than the number of pairs, 100 at most.
C25_SeparationAndOrbBounds ==
  pc = "done" =>
    /\ \A n \in DOMAIN synastry_aspects :
         LET a == synastry_aspects[n]
             d == Min(Abs(a.person1_position.longitude - a.person2_position.longitude),
                      Deg(360) - Abs(a.person1_position.longitude
                                       - a.person2_position.longitude))
         IN  /\ a.person1_position = person1Planets[a.person1_planet]
             /\ a.person2_position = person2Planets[a.person2_planet]
             /\ d >= 0
             /\ d <= Deg(180)
             /\ a.exact_angle = ToFixed2(d)
             /\ a.orb >= 0
             /\ a.orb <= 100 * ClaimedAspects[a.aspect][2]
    /\ \A p1 \in DOMAIN person1Planets : \A p2 \in DOMAIN person2Planets :
         Cardinality(RecordsOfPair(p1, p2)) <= 1
    /\ Len(synastry_aspects)
         <= Cardinality(TenPlanets \cap DOMAIN person1Planets)
              * Cardinality(TenPlanets \cap DOMAIN person2Planets)
    /\ Len(synastry_aspects) <= 100

\* C25's case: a list with a record for each of four pairs; one pair lies
\* at 280 and 8 degrees, whose difference of 272 is past the half circle:
\* its separation is 88 and it is a square of orb 2.
C25_Witness ==
  /\ pc = "done"
  /\ Len(synastry_aspects) = 4
  /\ \E n \in DOMAIN synastry_aspects :
       /\ synastry_aspects[n].person1_position.longitude = Deg(280)
       /\ synastry_aspects[n].person2_position.longitude = Deg(8)
       /\ synastry_aspects[n].exact_angle = 8800
       /\ synastry_aspects[n].aspect = "square"
       /\ synastry_aspects[n].orb = 200

(***************************************************************************)
(* Claims about the tool handlers, checked under SpecTools.                *)
(***************************************************************************)

\* The parameters of a tool that are datetimes, latitudes, longitudes and
\* years.
DatetimeParameters(name) ==
  CASE name = "calculate_planetary_positions" -> { "datetime" }
    [] name = "calculate_transits" -> { "birth_datetime" }
    [] name = "calculate_solar_revolution" -> { "birth_datetime" }
    [] name = "calculate_synastry" -> { "person1_datetime", "person2_datetime" }
    [] OTHER -> {}

LatitudeParameters(name) ==
  CASE name = "calculate_planetary_positions" -> { "latitude" }
    [] name = "calculate_transits" -> { "latitude" }
    [] name = "calculate_solar_revolution" -> { "birth_latitude" }
    [] name = "calculate_synastry" -> { "person1_latitude", "person2_latitude" }
    [] OTHER -> {}

LongitudeParameters(name) ==
  CASE name = "calculate_planetary_positions" -> { "longitude" }
    [] name = "calculate_transits" -> { "longitude" }
    [] name = "calculate_solar_revolution" -> { "birth_longitude" }
    [] name = "calculate_synastry" -> { "person1_longitude", "person2_longitude" }
    [] OTHER -> {}

YearParameters(name) ==
  IF name = "calculate_solar_revolution" THEN { "return_year" } ELSE {}

\* The value the request gives a parameter: undefined when the request has
\* no arguments or the arguments have no such key.
Given(key) ==
  IF call.args = Undefined THEN Undefined
  ELSE IF key \notin DOMAIN call.args THEN Undefined
  ELSE call.args[key]

\* The value is missing, empty or not a string.
NoDatetime(v) == v.type # "string" \/ v.string = ""

\* The value is not a number in [lo, hi].
NoNumberWithin(v, lo, hi) == v.type # "number" \/ v.number < lo \/ v.number > hi

\* The request has a parameter the validation is to reject.
HasInvalidParameter ==
  \/ \E key \in DatetimeParameters(call.name) : NoDatetime(Given(key))
  \/ \E key \in LatitudeParameters(call.name) : NoNumberWithin(Given(key), -90, 90)
  \/ \E key \in LongitudeParameters(call.name) : NoNumberWithin(Given(key), -180, 180)
  \/ \E key \in YearParameters(call.name) : NoNumberWithin(Given(key), 1900, 2100)

\* The handler threw an McpError of code InvalidParams.
RejectedAsInvalidParams ==
  /\ ~result.ok
  /\ "code" \in DOMAIN result.error
  /\ result.error.code = "InvalidParams"

\* C22: a tool call with a datetime that is missing, empty or no string, a
\* latitude that is no number in [-90, 90], a longitude that is no number
\* in [-180, 180] or a return_year that is no number in [1900, 2100] is
\* rejected with InvalidParams before any chart assembly starts, for both
\* persons of calculate_synastry too.
C22_InvalidParametersRejected ==
  (pc = "answered" /\ HasInvalidParameter) =>
    /\ RejectedAsInvalidParams
    /\ call.trace = << >>

\* The chart assemblies the handler started, in order.
Assemblies == SelectSeq(call.trace, LAMBDA e : e.op = "calculateEphemeris")

\* The JSON value is a number in [lo, hi].
NumberWithin(v, lo, hi) == v.type = "number" /\ v.number >= lo /\ v.number <= hi

\* C27: for all four tools and all argument values, calculateEphemeris is
\* only called with a latitude in [-90, 90] and a longitude in [-180, 180],
\* the return location of calculate_solar_revolution included.
C27_CoordinatesValidated ==
  pc = "answered" =>
    \A n \in DOMAIN Assemblies :
      /\ NumberWithin(Assemblies[n].latitude, -90, 90)
      /\ NumberWithin(Assemblies[n].longitude, -180, 180)

\* A calculate_solar_revolution call returned a result.
SolarRevolutionReturned ==
  /\ pc = "answered"
  /\ call.name = "calculate_solar_revolution"
  /\ result.ok

\* C23: in every successful calculate_solar_revolution result the Sun of
\* the solar return chart is at the natal Sun's longitude:
\* return_sun_longitude equals natal_sun_longitude.
C23_SunReturnsToNatalPosition ==
  SolarRevolutionReturned =>
    /\ result.value.return_sun_longitude = result.value.natal_sun_longitude
    /\ result.value.solar_return_chart.planets["Sun"].longitude
         = result.value.natal_chart.planets["Sun"].longitude

\* The return coordinate the request asks for: the one it supplies, the
\* birth coordinate when it supplies none.
AskedReturn(returned, birth) ==
  IF returned \in DOMAIN call.args THEN call.args[returned] ELSE call.args[birth]

\* C24: in calculate_solar_revolution the natal chart is assembled with the
\* birth coordinates; the solar return chart is assembled with, and reports
\* in its coordinates, return_latitude and return_longitude where they are
\* supplied and the birth latitude and longitude where they are omitted.
C24_ReturnLocationDefaultsToBirth ==
  (pc = "answered" /\ call.name = "calculate_solar_revolution") =>
    /\ Len(Assemblies) >= 1 =>
         /\ Assemblies[1].latitude = call.args.birth_latitude
         /\ Assemblies[1].longitude = call.args.birth_longitude
    /\ Len(Assemblies) >= 2 =>
         /\ Assemblies[2].latitude = AskedReturn("return_latitude", "birth_latitude")
         /\ Assemblies[2].longitude = AskedReturn("return_longitude", "birth_longitude")
    /\ result.ok =>
         /\ Len(Assemblies) = 2
         /\ result.value.natal_chart.coordinates
              = [ latitude |-> call.args.birth_latitude,
                  longitude |-> call.args.birth_longitude ]
         /\ result.value.solar_return_chart.coordinates
              = [ latitude |-> AskedReturn("return_latitude", "birth_latitude"),
                  longitude |-> AskedReturn("return_longitude", "birth_longitude") ]

\* C24's case: a successful call that supplied return_latitude 40 and no
\* return_longitude: the solar return chart reports latitude 40 and the
\* birth longitude 2.
C24_Witness ==
  /\ SolarRevolutionReturned
  /\ "return_latitude" \in DOMAIN call.args
  /\ "return_longitude" \notin DOMAIN call.args
  /\ call.args.return_latitude # call.args.birth_latitude
  /\ result.value.solar_return_chart.coordinates
       = [latitude |-> Num(40), longitude |-> Num(2)]

\* The readings of the clock.
ClockReadings == { "2026-11-03T12:00:00.000Z", "2026-11-03T12:00:01.000Z" }

\* C28: in every successful calculate_transits result natal_chart is the
\* first assembly, made from (birth_datetime, latitude, longitude),
\* current_transits is the second, made from the current instant at the
\* same latitude and longitude, and calculation_time is the datetime
\* current_transits records.
C28_TransitsAtOneClockReading ==
  (pc = "answered" /\ call.name = "calculate_transits" /\ result.ok) =>
    /\ Len(Assemblies) = 2
    /\ Assemblies[1].datetime = call.args.birth_datetime.string
    /\ Assemblies[1].latitude = call.args.latitude
    /\ Assemblies[1].longitude = call.args.longitude
    /\ Assemblies[2].datetime \in ClockReadings
    /\ Assemblies[2].latitude = call.args.latitude
    /\ Assemblies[2].longitude = call.args.longitude
    /\ result.value.natal_chart = Assemblies[1].result
    /\ result.value.natal_chart.datetime = call.args.birth_datetime.string
    /\ result.value.natal_chart.coordinates
         = [latitude |-> call.args.latitude, longitude |-> call.args.longitude]
    /\ result.value.current_transits = Assemblies[2].result
    /\ result.value.current_transits.coordinates
         = [latitude |-> call.args.latitude, longitude |-> call.args.longitude]
    /\ result.value.calculation_time = result.value.current_transits.datetime
    /\ result.value.calculation_time = Assemblies[2].datetime

\* C28's case: a successful calculate_transits call made at the second
\* clock reading.
C28_Witness ==
  /\ pc = "answered"
  /\ call.name = "calculate_transits"
  /\ result.ok
  /\ result.value.calculation_time = "2026-11-03T12:00:01.000Z"
  /\ result.value.natal_chart.datetime = BirthDatetime

(***************************************************************************)
(* Claims about HTTP mode, checked under SpecHttp.                         *)
(***************************************************************************)

\* The body is an initialize request, alone or in a batch.
HoldsInitialize(body) ==
  \E k \in DOMAIN body.items : body.items[k].method = "initialize"

\* C29: a request to /mcp with a session ID that is not in the session map,
\* or with no session ID and no initialize request, is answered with status
\* 400; no transport is created, connected or stored for it and it reaches
\* no transport.
C29_UnknownSessionRejected ==
  \A n \in DOMAIN requests :
    ( \/ requests[n].header # NoSessionId /\ ~requests[n].stored
      \/ requests[n].header = NoSessionId /\ ~HoldsInitialize(requests[n].body) ) =>
      /\ requests[n].status = 400
      /\ requests[n].pc = "done"
      /\ requests[n].transport = NoTransport
      /\ \A sessionId \in DOMAIN transports : transports[sessionId] # n

\* C30: a request that carries a session ID with which an initialize
\* request was answered before is not answered 400 and reaches the transport
\* created for that session, and the entry a session was stored under
\* stays the transport of that session.
C30_SessionKeepsItsTransport ==
  /\ \A n \in DOMAIN requests :
       requests[n].issuers # {} =>
         /\ requests[n].status # 400
         /\ requests[n].transport \in requests[n].issuers
  /\ \A n \in DOMAIN requests :
       (requests[n].sessionId # NoSessionId /\ requests[n].pc = "done") =>
         transports[requests[n].sessionId] = n

=============================================================================
